---- MODULE Spec2Model ----
(***************************************************************************)
(* A model of the gpt-sovits-rust inference engine:                        *)
(*   - ChBertUtils::infer_wav, the acoustic decoder with its autoregressive *)
(*     loop (sovits-rs/src/bert_utils.rs);                                  *)
(*   - ChBertUtils::infer, the per-chunk synthesis loop;                    *)
(*   - ChBertUtils::get_bert_features, the encoder driver;                  *)
(*   - TextUtils::get_cleaned_text_final, the front-end span builder;       *)
(*   - api_tts, the HTTP handler sharing one engine behind a Mutex;         *)
(*   - the text front end called as functions: cut_texts, the Chinese       *)
(*     number reader Num, Chinese::text_normalize, the English number       *)
(*     speller, MMSeg::seg, the vocoder's text inputs, the token merges    *)
(*     and yi_sandhi of ToneSandhi, and the date reader of Chronology.     *)
(* Each subsystem is a specification of its own over the same variables;   *)
(* the variables of the other subsystems stay at their idle values.        *)
(***************************************************************************)
EXTENDS Integers, Sequences, FiniteSets, TLC

VARIABLES
    \* ---- ChBertUtils::infer_wav (one chunk) ----
    iw_pc,        \* position inside infer_wav
    idx,          \* the loop variable of `for idx in 1..1500` (0 before the loop)
    loop_idx,     \* `let mut loop_idx = 0`
    y,            \* token history, shape (1, T): the row as a sequence
    kv_gen,       \* which call produced the current k, v, y_emb (0 = first stage)
    samples,      \* samples[0,0] of the last stage-decoder call
    logits,       \* logits[0] of the last stage-decoder call
    pred_semantic,\* the slice handed to the vocoder
    vocoder_runs, \* how many times vq_model.run was called
    audio_norm,   \* the Vec<i16> infer_wav returns
    sentinel_at,  \* observer: the steps at which a sentinel was read
    \* ---- api_tts over web::Data<Arc<Mutex<AppState>>> ----
    req_pc,         \* position of each request's handler
    mutex_holder,   \* the request holding the MutexGuard, 0 when unlocked
    mutex_poisoned, \* the Mutex's poison flag
    track,          \* QueryTracker: the requests recorded, in order
    \* ---- ChBertUtils: the reference voice and one infer call ----
    engine,       \* the reference voice held by ChBertUtils (set by new())
    inf_pc,       \* position inside infer
    inf_texts,    \* `texts`, the chunks cut_texts returned
    inf_i,        \* how many chunks the flat_map has consumed
    inf_out,      \* the samples collected so far
    inf_calls,    \* how many infer calls were started
    chunk_pcm,    \* observer: what infer_wav returned for each chunk, by chunk index
    \* ---- TextUtils::get_cleaned_text_final ----
    revision,       \* which revision of the front-end is built: "sovits-rs" or "src"
    cl_pc,          \* position inside get_cleaned_text_final
    cl_count,       \* how many (lang2, text2) pieces the loops have visited
    phones_list,    \* CleanedText.phones_list
    word2ph_list,   \* CleanedText.word2ph_list
    lang_list,      \* CleanedText.lang_list
    norm_text_list, \* CleanedText.norm_text_list
    cl_merged,      \* observer: a piece was merged into the previous span
    cl_dropped,     \* observer: a piece was dropped for an empty normalized text
    \* ---- ChBertUtils::get_bert_features ----
    bf_pc,            \* position inside get_bert_features
    bf_i,             \* how many spans the loop has visited
    bf_features,      \* `features`: the shape of each span's matrix
    bf_phones_unpack, \* `phones_list_unpack`
    bf_norm_text_str, \* `norm_text_str`
    bf_result,        \* BertFeatures.features: the shape of the matrix returned
    bf_encode_failed, \* observer: tokenizer.encode failed on a span
    \* ---- one call of a function of the text front end ----
    fn_pc,            \* "idle", "called", "returned" or "panicked"
    fn_args,          \* the arguments of the call
    fn_result         \* what the call returned

decVars == <<iw_pc, idx, loop_idx, y, kv_gen, samples, logits, pred_semantic,
             vocoder_runs, audio_norm, sentinel_at>>

srvVars == <<req_pc, mutex_holder, mutex_poisoned, track>>

infVars == <<engine, inf_pc, inf_texts, inf_i, inf_out, inf_calls, chunk_pcm>>

clnVars == <<revision, cl_pc, cl_count, phones_list, word2ph_list, lang_list,
             norm_text_list, cl_merged, cl_dropped>>

berVars == <<bf_pc, bf_i, bf_features, bf_phones_unpack, bf_norm_text_str,
             bf_result, bf_encode_failed>>

fnVars == <<fn_pc, fn_args, fn_result>>

vars == <<decVars, srvVars, infVars, clnVars, berVars, fnVars>>

\* the variables outside each subsystem
nonDecVars == <<srvVars, infVars, clnVars, berVars, fnVars>>
nonSrvVars == <<decVars, infVars, clnVars, berVars, fnVars>>
nonInfVars == <<decVars, srvVars, clnVars, berVars, fnVars>>
nonClnVars == <<decVars, srvVars, infVars, berVars, fnVars>>
nonFnVars == <<decVars, srvVars, infVars, clnVars, berVars>>

(***************************************************************************)
(* Program constants of infer_wav.                                         *)
(***************************************************************************)
\* a range that runs one iteration more
LoopEndInclusive == 1500 + 1

\* `for idx in 1..1500`: the exclusive end of the range
LoopEnd == 1500
\* the end-of-sequence token tested on samples[0,0] and logits[0]
Sentinel == 1024
\* ((x) * 32768.0) as i16
PcmScale == 32768
\* i16::MAX, where `as i16` saturates
I16Max == 32767
\* audio amplitudes are modelled in units of 1/AmpUnit, so AmpUnit is 1.0
AmpUnit == 4

(***************************************************************************)
(* Bounds of the model.                                                    *)
(***************************************************************************)
\* number of tokens the first-stage decoder returns in y
PromptLen == 2

\* a token that is not the sentinel
Tok == 7
\* the token of every column of the y the first-stage decoder returns
PromptTok == 5
\* what the stage decoder may return as samples[0,0] and as logits[0]
SampleVals == {Tok, Sentinel}
LogitVals == {Tok, Sentinel}
\* float waveforms the vocoder may return (audio[0,0,:]), in units of 1/AmpUnit
AudioOutputs == {<<>>, <<2, -4>>, <<4, -8, 1>>}

Abs(x) == IF x < 0 THEN -x ELSE x

RECURSIVE MaxAbs(_)
\* audio.iter().map(|&v| v.abs()).fold(0.0, f32::max)
MaxAbs(s) == IF s = <<>> THEN 0
             ELSE LET m == MaxAbs(Tail(s)) IN IF Abs(Head(s)) > m THEN Abs(Head(s)) ELSE m

\* truncation toward zero of n/d (d > 0), as `as i16` truncates
TruncDiv(n, d) == IF n >= 0 THEN n \div d ELSE -((-n) \div d)

\* `as i16` on an f32: truncates and saturates
AsI16(v) == IF v > I16Max THEN I16Max ELSE IF v < -PcmScale THEN -PcmScale ELSE v

\* peak normalisation at the end of infer_wav
AudioNorm(audio) ==
    LET m == MaxAbs(audio) IN
    IF m > AmpUnit
      THEN [i \in 1..Len(audio) |-> AsI16(TruncDiv(audio[i] * PcmScale, m))]
      ELSE [i \in 1..Len(audio) |-> AsI16(TruncDiv(audio[i] * PcmScale, AmpUnit))]

\* y.slice(s![.., y.shape()[1] - loop_idx..])
\* a slice that starts one column early
SliceLastAndOneBefore(s, n) == SubSeq(s, Len(s) - n, Len(s))

SliceLast(s, n) == SubSeq(s, Len(s) - n + 1, Len(s))

\* *y.get_mut((0, y.shape()[1] - 1)).unwrap() = 0
ScrubLast(s) == [s EXCEPT ![Len(s)] = 0]

IdleDecode ==
    /\ iw_pc = "idle"
    /\ idx = 0
    /\ loop_idx = 0
    /\ y = <<>>
    /\ kv_gen = 0
    /\ samples = 0
    /\ logits = 0
    /\ pred_semantic = <<>>
    /\ vocoder_runs = 0
    /\ audio_norm = <<>>
    /\ sentinel_at = {}

IdleServer ==
    /\ req_pc = <<>>
    /\ mutex_holder = 0
    /\ mutex_poisoned = FALSE
    /\ track = <<>>

IdleInfer ==
    /\ engine = <<>>
    /\ inf_pc = "idle"
    /\ inf_texts = <<>>
    /\ inf_i = 0
    /\ inf_out = <<>>
    /\ inf_calls = 0
    /\ chunk_pcm = <<>>

IdleClean ==
    /\ revision = "sovits-rs"
    /\ cl_pc = "idle"
    /\ cl_count = 0
    /\ phones_list = <<>>
    /\ word2ph_list = <<>>
    /\ lang_list = <<>>
    /\ norm_text_list = <<>>
    /\ cl_merged = FALSE
    /\ cl_dropped = FALSE

IdleBert ==
    /\ bf_pc = "idle"
    /\ bf_i = 0
    /\ bf_features = <<>>
    /\ bf_phones_unpack = <<>>
    /\ bf_norm_text_str = <<>>
    /\ bf_result = <<>>
    /\ bf_encode_failed = FALSE

IdleFn ==
    /\ fn_pc = "idle"
    /\ fn_args = <<>>
    /\ fn_result = <<>>

\* infer_wav is entered: ssl_model, vq_model_latent, then the first-stage decoder
InitDecode ==
    /\ iw_pc = "ssl"
    /\ idx = 0
    /\ loop_idx = 0
    /\ y = <<>>
    /\ kv_gen = 0
    /\ samples = 0
    /\ logits = 0
    /\ pred_semantic = <<>>
    /\ vocoder_runs = 0
    /\ audio_norm = <<>>
    /\ sentinel_at = {}
    /\ IdleServer
    /\ IdleInfer
    /\ IdleClean
    /\ IdleBert
    /\ IdleFn

\* ssl_model.run(...).expect(...)
RunSsl ==
    /\ iw_pc = "ssl"
    /\ \E ok \in BOOLEAN : iw_pc' = IF ok THEN "vq_latent" ELSE "panicked"
    /\ UNCHANGED <<idx, loop_idx, y, kv_gen, samples, logits, pred_semantic,
                   vocoder_runs, audio_norm, sentinel_at>>
    /\ UNCHANGED nonDecVars

\* vq_model_latent.run(...).expect(...)
RunVqLatent ==
    /\ iw_pc = "vq_latent"
    /\ \E ok \in BOOLEAN : iw_pc' = IF ok THEN "first_stage" ELSE "panicked"
    /\ UNCHANGED <<idx, loop_idx, y, kv_gen, samples, logits, pred_semantic,
                   vocoder_runs, audio_norm, sentinel_at>>
    /\ UNCHANGED nonDecVars

\* t2s_first_stage_decoder.run(...).expect(...): the initial y, k, v, y_emb
RunFirstStage ==
    /\ iw_pc = "first_stage"
    /\ \E ok \in BOOLEAN :
         IF ok
           THEN /\ iw_pc' = "loop"
                /\ y' = [i \in 1..PromptLen |-> PromptTok]
                /\ kv_gen' = 0
                /\ loop_idx' = 0
           ELSE /\ iw_pc' = "panicked"
                /\ UNCHANGED <<y, kv_gen, loop_idx>>
    /\ UNCHANGED <<idx, samples, logits, pred_semantic, vocoder_runs, audio_norm,
                   sentinel_at>>
    /\ UNCHANGED nonDecVars

\* a break test that looks at samples only
IsSentinelSamplesOnly(s, l) == s = Sentinel

\* the `if samples == 1024 || logits == 1024` test that ends the loop
IsSentinel(s, l) == s = Sentinel \/ l = Sentinel

\* an iteration that keeps the k, v, y_emb it was given
StageDecoderStepStaleKv ==
    /\ iw_pc = "loop"
    /\ idx + 1 < LoopEnd
    /\ \E ok \in BOOLEAN, s \in SampleVals, l \in LogitVals :
         IF ok
           THEN /\ idx' = idx + 1
                /\ kv_gen' = kv_gen
                /\ samples' = s
                /\ logits' = l
                /\ y' = Append(y, s)
                /\ sentinel_at' = IF s = 1024 \/ l = 1024
                                     THEN sentinel_at \cup {idx + 1}
                                     ELSE sentinel_at
                /\ IF IsSentinel(s, l)
                     THEN /\ loop_idx' = idx + 1
                          /\ iw_pc' = "after_loop"
                     ELSE /\ UNCHANGED <<loop_idx, iw_pc>>
           ELSE /\ iw_pc' = "panicked"
                /\ idx' = idx + 1
                /\ UNCHANGED <<kv_gen, samples, logits, y, loop_idx, sentinel_at>>
    /\ UNCHANGED <<pred_semantic, vocoder_runs, audio_norm>>
    /\ UNCHANGED nonDecVars

\* one iteration of `for idx in 1..1500`: the stage decoder runs, k, v, y_emb are
\* replaced, samples is appended to y, and the loop breaks on a sentinel
StageDecoderStep ==
    /\ iw_pc = "loop"
    /\ idx + 1 < LoopEnd
    /\ \E ok \in BOOLEAN, s \in SampleVals, l \in LogitVals :
         IF ok
           THEN /\ idx' = idx + 1
                /\ kv_gen' = idx + 1
                /\ samples' = s
                /\ logits' = l
                /\ y' = Append(y, s)
                /\ sentinel_at' = IF s = 1024 \/ l = 1024
                                     THEN sentinel_at \cup {idx + 1}
                                     ELSE sentinel_at
                /\ IF IsSentinel(s, l)
                     THEN /\ loop_idx' = idx + 1
                          /\ iw_pc' = "after_loop"
                     ELSE /\ UNCHANGED <<loop_idx, iw_pc>>
           ELSE /\ iw_pc' = "panicked"
                /\ idx' = idx + 1
                /\ UNCHANGED <<kv_gen, samples, logits, y, loop_idx, sentinel_at>>
    /\ UNCHANGED <<pred_semantic, vocoder_runs, audio_norm>>
    /\ UNCHANGED nonDecVars

\* the range 1..1500 is exhausted without a break
LoopExhausted ==
    /\ iw_pc = "loop"
    /\ ~(idx + 1 < LoopEnd)
    /\ iw_pc' = "after_loop"
    /\ UNCHANGED <<idx, loop_idx, y, kv_gen, samples, logits, pred_semantic,
                   vocoder_runs, audio_norm, sentinel_at>>
    /\ UNCHANGED nonDecVars

\* the last column of y is overwritten with 0 and the last loop_idx columns are sliced
BuildPredSemantic ==
    /\ iw_pc = "after_loop"
    /\ y' = ScrubLast(y)
    /\ pred_semantic' = SliceLast(ScrubLast(y), loop_idx)
    /\ iw_pc' = "vocoder"
    /\ UNCHANGED <<idx, loop_idx, kv_gen, samples, logits, vocoder_runs, audio_norm,
                   sentinel_at>>
    /\ UNCHANGED nonDecVars

\* vq_model.run(...).expect(...), then the peak normalisation
RunVocoder ==
    /\ iw_pc = "vocoder"
    /\ vocoder_runs' = vocoder_runs + 1
    /\ \E ok \in BOOLEAN, audio \in AudioOutputs :
         IF ok
           THEN /\ audio_norm' = AudioNorm(audio)
                /\ iw_pc' = "returned"
           ELSE /\ iw_pc' = "panicked"
                /\ UNCHANGED audio_norm
    /\ UNCHANGED <<idx, loop_idx, y, kv_gen, samples, logits, pred_semantic,
                   sentinel_at>>
    /\ UNCHANGED nonDecVars

NextDecode ==
    \/ RunSsl
    \/ RunVqLatent
    \/ RunFirstStage
    \/ StageDecoderStep
    \/ LoopExhausted
    \/ BuildPredSemantic
    \/ RunVocoder

SpecDecode == InitDecode /\ [][NextDecode]_vars

(***************************************************************************)
(* Claims about the autoregressive decode loop (SpecDecode).               *)
(***************************************************************************)

\* C1: the decode loop executes at most 1499 stage-decoder steps and then leaves
\* the loop, whether or not a sentinel was seen: idx never exceeds 1499, and
\* after the 1499th step no further step can be taken, only the loop's exit.
C1_LoopAtMost1499Steps ==
    /\ idx <= 1499
    /\ (iw_pc = "loop" /\ idx = 1499) => (~ENABLED StageDecoderStep /\ ENABLED LoopExhausted)

\* the loop was left after 1499 steps, none of which read a sentinel
C1_Witness == iw_pc = "after_loop" /\ idx = 1499 /\ sentinel_at = {}

\* the decode loop ran all its steps and no step read a sentinel
CapReachedWithoutSentinel ==
    /\ iw_pc \in {"after_loop", "vocoder", "returned", "panicked"}
    /\ idx = 1499
    /\ sentinel_at = {}

\* C2: if the loop runs all 1499 steps without a sentinel, the chunk produces no
\* PCM: the vocoder is never run and the call does not return samples.
C2_CapEndsWithoutVocoder ==
    CapReachedWithoutSentinel => (vocoder_runs = 0 /\ iw_pc # "returned")

\* C3: the loop stops at the first step that reads samples[0,0] = 1024 or
\* logits[0] = 1024, either alone sufficing: while the loop runs no sentinel has
\* been read (never later), the loop is left before the cap only by a sentinel
\* or a failed call (never earlier), and loop_idx is the 1-based index of the
\* one step that read a sentinel.
C3_StopsAtFirstSentinel ==
    /\ iw_pc = "loop" => sentinel_at = {}
    /\ sentinel_at # {} =>
          /\ sentinel_at = {loop_idx}
          /\ loop_idx = idx
          /\ (samples = 1024 \/ logits = 1024)
    /\ loop_idx # 0 => sentinel_at = {loop_idx}
    /\ (iw_pc \in {"after_loop", "vocoder", "returned"} /\ idx < 1499) => sentinel_at # {}

\* the loop has stopped at step 3 on a sentinel in logits alone
C3_Witness ==
    /\ iw_pc = "after_loop"
    /\ loop_idx = 3
    /\ logits = 1024
    /\ samples # 1024

(***************************************************************************)
(* The HTTP handler api_tts: every request locks the one shared AppState,  *)
(* synthesizes under the lock, encodes the WAV, locks again to record the  *)
(* query and responds.                                                     *)
(***************************************************************************)
\* number of concurrent /api/tts requests
NumRequests == 3

Reqs == 1..NumRequests

InitServer ==
    /\ req_pc = [r \in Reqs |-> "new"]
    /\ mutex_holder = 0
    /\ mutex_poisoned = FALSE
    /\ track = <<>>
    /\ IdleDecode
    /\ IdleInfer
    /\ IdleClean
    /\ IdleBert
    /\ IdleFn

\* a lock that is handed out while another guard is alive
LockForSynthesisNoWait(r) ==
    /\ req_pc[r] = "new"
    /\ IF mutex_poisoned
         THEN /\ req_pc' = [req_pc EXCEPT ![r] = "lock_panicked"]
              /\ UNCHANGED mutex_holder
         ELSE /\ req_pc' = [req_pc EXCEPT ![r] = "synth"]
              /\ mutex_holder' = r
    /\ UNCHANGED <<mutex_poisoned, track>>
    /\ UNCHANGED nonSrvVars

\* data.get_ref().lock().unwrap() of the synthesis statement: blocks while the
\* Mutex is held; on a poisoned Mutex lock() is Err and unwrap() panics, the guard
\* inside the error being dropped again
LockForSynthesis(r) ==
    /\ req_pc[r] = "new"
    /\ mutex_holder = 0
    /\ IF mutex_poisoned
         THEN /\ req_pc' = [req_pc EXCEPT ![r] = "lock_panicked"]
              /\ UNCHANGED mutex_holder
         ELSE /\ req_pc' = [req_pc EXCEPT ![r] = "synth"]
              /\ mutex_holder' = r
    /\ UNCHANGED <<mutex_poisoned, track>>
    /\ UNCHANGED nonSrvVars

\* a synthesis whose guard lives on after the statement
SynthesisKeepsGuard(r) ==
    /\ req_pc[r] = "synth"
    /\ \E ok \in BOOLEAN :
         IF ok
           THEN /\ req_pc' = [req_pc EXCEPT ![r] = "encode"]
                /\ UNCHANGED <<mutex_poisoned, mutex_holder>>
           ELSE /\ req_pc' = [req_pc EXCEPT ![r] = "synth_panicked"]
                /\ mutex_poisoned' = TRUE
                /\ mutex_holder' = 0
    /\ UNCHANGED track
    /\ UNCHANGED nonSrvVars

\* .engine.synthesis(text) under the guard: it returns the samples, or a neural
\* module call fails and its expect() panics; the guard is dropped either way, and
\* a guard dropped while panicking poisons the Mutex
Synthesis(r) ==
    /\ req_pc[r] = "synth"
    /\ \E ok \in BOOLEAN :
         IF ok
           THEN /\ req_pc' = [req_pc EXCEPT ![r] = "encode"]
                /\ UNCHANGED mutex_poisoned
           ELSE /\ req_pc' = [req_pc EXCEPT ![r] = "synth_panicked"]
                /\ mutex_poisoned' = TRUE
    /\ mutex_holder' = 0
    /\ UNCHANGED track
    /\ UNCHANGED nonSrvVars

\* the WAV is written into the in-memory cursor
EncodeWav(r) ==
    /\ req_pc[r] = "encode"
    /\ req_pc' = [req_pc EXCEPT ![r] = "record_wait"]
    /\ UNCHANGED <<mutex_holder, mutex_poisoned, track>>
    /\ UNCHANGED nonSrvVars

\* data.get_ref().lock().unwrap() of the record_query statement
LockForRecord(r) ==
    /\ req_pc[r] = "record_wait"
    /\ mutex_holder = 0
    /\ IF mutex_poisoned
         THEN /\ req_pc' = [req_pc EXCEPT ![r] = "lock_panicked"]
              /\ UNCHANGED mutex_holder
         ELSE /\ req_pc' = [req_pc EXCEPT ![r] = "record"]
              /\ mutex_holder' = r
    /\ UNCHANGED <<mutex_poisoned, track>>
    /\ UNCHANGED nonSrvVars

\* .track.record_query(...), the guard dropped at the end of the statement, then
\* HttpResponse::Ok()
RecordQuery(r) ==
    /\ req_pc[r] = "record"
    /\ track' = Append(track, r)
    /\ mutex_holder' = 0
    /\ req_pc' = [req_pc EXCEPT ![r] = "responded"]
    /\ UNCHANGED mutex_poisoned
    /\ UNCHANGED nonSrvVars

NextServer ==
    \/ \E r \in Reqs : LockForSynthesis(r)
    \/ \E r \in Reqs : Synthesis(r)
    \/ \E r \in Reqs : EncodeWav(r)
    \/ \E r \in Reqs : LockForRecord(r)
    \/ \E r \in Reqs : RecordQuery(r)

SpecServer == InitServer /\ [][NextServer]_vars

(***************************************************************************)
(* Claims about the handler (SpecServer).                                  *)
(***************************************************************************)

\* C4: when a neural module call fails during one request, only that request
\* fails and the engine stays usable: no request ever fails to acquire the
\* engine, so every later request can still lock it and be synthesized.
C4_EngineStaysUsable == \A r \in Reqs : req_pc[r] # "lock_panicked"

\* C5: at most one synthesis call is executing at any time, and a request
\* runs engine.synthesis only while it holds the lock on the shared state.
C5_SynthesisExclusive ==
    /\ Cardinality({r \in Reqs : req_pc[r] = "synth"}) <= 1
    /\ \A r \in Reqs : req_pc[r] = "synth" => mutex_holder = r

\* one request is synthesizing while two others wait for the lock
C5_Witness ==
    \E r \in Reqs :
        /\ req_pc[r] = "synth"
        /\ Cardinality({q \in Reqs : req_pc[q] = "new"}) >= 2

(***************************************************************************)
(* LangSegment::cut_texts.  A text is a sequence of characters, each a      *)
(* string naming it.                                                       *)
(***************************************************************************)
\* U+3002, the Chinese full stop
ZhStop == "zh_stop"
\* U+FF0C, the Chinese comma
ZhComma == "zh_comma"
\* the line feed
Newline == "nl"

RECURSIVE TrimStart(_, _)
TrimStart(s, c) == IF s # <<>> /\ Head(s) = c THEN TrimStart(Tail(s), c) ELSE s

RECURSIVE TrimEnd(_, _)
TrimEnd(s, c) ==
    IF s # <<>> /\ s[Len(s)] = c THEN TrimEnd(SubSeq(s, 1, Len(s) - 1), c) ELSE s

\* str::trim_matches(c)
TrimMatches(s, c) == TrimEnd(TrimStart(s, c), c)

RECURSIVE SplitFrom(_, _, _)
\* the pieces of s between occurrences of c, cur being the piece under way
SplitFrom(s, c, cur) ==
    IF s = <<>> THEN <<cur>>
    ELSE IF Head(s) = c THEN <<cur>> \o SplitFrom(Tail(s), c, <<>>)
    ELSE SplitFrom(Tail(s), c, Append(cur, Head(s)))

\* str::split(c): the empty string gives one empty piece
Split(s, c) == SplitFrom(s, c, <<>>)

RECURSIVE Join(_, _)
\* [String]::join(sep)
Join(parts, sep) ==
    IF parts = <<>> THEN <<>>
    ELSE IF Len(parts) = 1 THEN parts[1]
    ELSE parts[1] \o <<sep>> \o Join(Tail(parts), sep)

\* cut3: cut at the Chinese full stop; a piece longer than max_num is cut at the
\* Chinese comma as well
cut3(inp, max_num) ==
    LET trimmed == TrimMatches(inp, Newline)
        inps == Split(TrimMatches(trimmed, ZhStop), ZhStop)
        cut == [i \in 1..Len(inps) |->
                  IF Len(inps[i]) > max_num
                    THEN Join(Split(inps[i], ZhComma), Newline)
                    ELSE inps[i]]
    IN Join(cut, Newline)

RECURSIVE MergeLoopPushLast(_, _, _, _)
\* a merge that pushes the last buffer as a chunk of its own
MergeLoopPushLast(texts, threshold, result, buffer) ==
    IF texts = <<>>
      THEN IF buffer # <<>> THEN Append(result, buffer) ELSE result
      ELSE LET b == buffer \o Head(texts) IN
           IF Len(b) >= threshold
             THEN MergeLoopPushLast(Tail(texts), threshold, Append(result, b), <<>>)
             ELSE MergeLoopPushLast(Tail(texts), threshold, result, b)

RECURSIVE MergeLoop(_, _, _, _)
\* the for loop of merge_short_text_in_array and the handling of the last buffer
MergeLoop(texts, threshold, result, buffer) ==
    IF texts = <<>>
      THEN IF buffer # <<>>
             THEN IF result # <<>>
                    THEN [result EXCEPT ![Len(result)] = result[Len(result)] \o buffer]
                    ELSE <<buffer>>
             ELSE result
      ELSE LET b == buffer \o Head(texts) IN
           IF Len(b) >= threshold
             THEN MergeLoop(Tail(texts), threshold, Append(result, b), <<>>)
             ELSE MergeLoop(Tail(texts), threshold, result, b)

merge_short_text_in_array(texts, threshold) ==
    IF Len(texts) < 2 THEN texts ELSE MergeLoop(texts, threshold, <<>>, <<>>)

\* the threshold cut_texts passes to merge_short_text_in_array
MergeThreshold == 5

cut_texts(text, max_num) ==
    merge_short_text_in_array(Split(cut3(text, max_num), Newline), MergeThreshold)

(***************************************************************************)
(* ChBertUtils::new and ChBertUtils::infer.                                *)
(***************************************************************************)
\* let sampling_rate: i32 = 32000
SamplingRate == 32000
\* (sampling_rate as f32 * 0.3) as usize
ZeroSamplingLen == (SamplingRate * 3) \div 10
\* ref_words.chars().count() of the transcript literal
RefWordsChars == 70
\* rows of every feature matrix
FeatureRows == 1024

\* number of infer calls made on one engine
MaxInferCalls == 2

Rep(c, n) == [i \in 1..n |-> c]

RECURSIVE Flatten(_)
\* the concatenation of a sequence of sequences, in order
Flatten(ss) == IF ss = <<>> THEN <<>> ELSE Head(ss) \o Flatten(Tail(ss))

\* sample counts of the reference WAV decoded at 16 kHz
RefWavLens == {1600, 3200}
\* phoneme IDs of the reference transcript
RefPhoneLists == {<<3, 125>>, <<3, 125, 146>>}
\* the texts the requests carry
RequestTexts ==
    { <<>>,
      Rep("a", 6),
      Rep("a", 3) \o <<ZhStop>> \o Rep("b", 2),
      Rep("a", 6) \o <<ZhStop>> \o Rep("b", 7),
      Rep("a", 6) \o <<ZhStop>> \o Rep("b", 7) \o <<ZhStop>> \o Rep("c", 5) \o <<ZhStop>> }

\* ChBertUtils::new: the reference voice, computed once
NewEngine(n16, phones) ==
    [ ref_words_chars    |-> RefWordsChars,
      wav16k_len         |-> n16 + ZeroSamplingLen,
      wav32k_len         |-> 2 * n16,
      features           |-> [rows |-> FeatureRows, cols |-> Len(phones)],
      phones_list_unpack |-> phones ]

InitInfer ==
    /\ \E n16 \in RefWavLens, phones \in RefPhoneLists : engine = NewEngine(n16, phones)
    /\ inf_pc = "idle"
    /\ inf_texts = <<>>
    /\ inf_i = 0
    /\ inf_out = <<>>
    /\ inf_calls = 0
    /\ chunk_pcm = <<>>
    /\ IdleDecode
    /\ IdleServer
    /\ IdleClean
    /\ IdleBert
    /\ IdleFn

\* infer is entered: texts = cut_texts(text, ref_words.chars().count())
StartInfer ==
    /\ inf_pc \in {"idle", "returned", "panicked"}
    /\ inf_calls < MaxInferCalls
    /\ \E text \in RequestTexts :
         inf_texts' = cut_texts(text, engine.ref_words_chars)
    /\ inf_pc' = "chunks"
    /\ inf_i' = 0
    /\ inf_out' = <<>>
    /\ chunk_pcm' = <<>>
    /\ inf_calls' = inf_calls + 1
    /\ UNCHANGED engine
    /\ UNCHANGED nonInfVars

\* a collect that puts each new chunk in front
CollectInFront(out, pcm) == pcm \o out

\* flat_map(...).collect(): the samples of each chunk follow those collected before
Collect(out, pcm) == out \o pcm

\* what infer_wav may return for a chunk
InferWavResults == {AudioNorm(a) : a \in AudioOutputs}

\* a chunk iteration that moves the reference phoneme IDs out of the engine
InferChunkDrainsReference ==
    /\ inf_pc = "chunks"
    /\ inf_i < Len(inf_texts)
    /\ \E ok \in BOOLEAN, pcm \in InferWavResults :
         IF ok
           THEN /\ inf_out' = Collect(inf_out, pcm)
                /\ chunk_pcm' = Append(chunk_pcm, pcm)
                /\ inf_i' = inf_i + 1
                /\ UNCHANGED inf_pc
           ELSE /\ inf_pc' = "panicked"
                /\ UNCHANGED <<inf_out, chunk_pcm, inf_i>>
    /\ engine' = [engine EXCEPT !.phones_list_unpack = <<>>]
    /\ UNCHANGED <<inf_texts, inf_calls>>
    /\ UNCHANGED nonInfVars

\* one iteration of the flat_map closure on chunk inf_i + 1: get_cleaned_text_final,
\* get_bert_features and infer_wav on borrowed reference features and phoneme IDs;
\* any of them may panic, otherwise the chunk's samples are collected
InferChunk ==
    /\ inf_pc = "chunks"
    /\ inf_i < Len(inf_texts)
    /\ \E ok \in BOOLEAN, pcm \in InferWavResults :
         IF ok
           THEN /\ inf_out' = Collect(inf_out, pcm)
                /\ chunk_pcm' = [k \in 1..(inf_i + 1) |->
                                   IF k = inf_i + 1 THEN pcm ELSE chunk_pcm[k]]
                /\ inf_i' = inf_i + 1
                /\ UNCHANGED inf_pc
           ELSE /\ inf_pc' = "panicked"
                /\ UNCHANGED <<inf_out, chunk_pcm, inf_i>>
    /\ UNCHANGED <<engine, inf_texts, inf_calls>>
    /\ UNCHANGED nonInfVars

\* the iterator is exhausted and the collected Vec<i16> is returned
InferReturn ==
    /\ inf_pc = "chunks"
    /\ inf_i = Len(inf_texts)
    /\ inf_pc' = "returned"
    /\ UNCHANGED <<engine, inf_texts, inf_i, inf_out, inf_calls, chunk_pcm>>
    /\ UNCHANGED nonInfVars

NextInfer ==
    \/ StartInfer
    \/ InferChunk
    \/ InferReturn

SpecInfer == InitInfer /\ [][NextInfer]_vars

(***************************************************************************)
(* Claims about infer (SpecInfer).                                         *)
(***************************************************************************)
\* C6: in the buffer infer returns, the samples of chunk i all come before the
\* samples of chunk i+1 and every chunk's samples appear exactly once: the
\* buffer is the concatenation, in chunk order, of what infer_wav returned for
\* each chunk of cut_texts.
C6_ChunksInOrderOnce ==
    inf_pc = "returned" =>
        /\ Len(chunk_pcm) = Len(inf_texts)
        /\ inf_out = Flatten(chunk_pcm)

\* an infer call over three chunks has returned, with different samples for the
\* first two chunks
C6_Witness ==
    /\ inf_pc = "returned"
    /\ Len(inf_texts) = 3
    /\ chunk_pcm[1] # chunk_pcm[2]
    /\ chunk_pcm[1] # <<>>
    /\ chunk_pcm[2] # <<>>

\* C7: a synthesis call leaves the reference voice unchanged: the reference
\* features, reference phoneme IDs, wav16k, wav32k and transcript held by the
\* engine are the same after every step of every infer call.
C7_ReferenceVoiceUnchanged == [][engine' = engine]_vars

\* a second infer call on the same engine has returned after at least two chunks
C7_Witness ==
    /\ inf_pc = "returned"
    /\ inf_calls = 2
    /\ Len(inf_texts) >= 2

(***************************************************************************)
(* TextUtils::get_cleaned_text_final and what it calls.                    *)
(* The text of a piece is a sequence of units, each named by its class: a  *)
(* character of Chinese text, or a token of English text.                  *)
(*   han      a Chinese character whose syllable is in the symbol map      *)
(*   rare     a Chinese character without pinyin: LazyPinyin returns the   *)
(*            character itself as initial and as final                     *)
(*   nosym    a Chinese character whose syllable is not in the symbol map  *)
(*   digit    a digit, verbalized by the normalizer of either language     *)
(*   comma, period   ASCII punctuation                                     *)
(*   zh_stop  the Chinese full stop, which rep_map turns into the period   *)
(*   yen, caret      the special symbols of clean_text_inf                 *)
(*   paren    a bracket, one of the symbols RE_SPECIAL_SYMBOL matches      *)
(*   word     an English word; blank: white space                          *)
(***************************************************************************)
CHINESE_LANG == "Chinese"
ENGLISH_LANG == "English"
JAPANESE_LANG == "Japanese"

\* number of pieces one call visits
MaxPieces == 4

\* the texts of the Chinese and of the English pieces
ChineseTexts ==
    { <<>>, <<"han", "rare">>, <<"yen", "rare">>, <<"nosym">>,
      <<"blank">>, <<"digit", "comma">>, <<"caret", "paren", "han">> }
EnglishTexts == { <<>>, <<"word">>, <<"blank">> }

\* what the language detector may yield for a piece
Pieces ==
    {[lang |-> CHINESE_LANG, text |-> t] : t \in ChineseTexts}
        \cup {[lang |-> ENGLISH_LANG, text |-> t] : t \in EnglishTexts}

\* the symbols of SYMBOLS the model uses, with their index in SYMBOLS
SymbolIndex ==
    [sym \in {",", ".", "SP2", "SP3", "zh", "a1", "HH", "AH0"} |->
        CASE sym = "," -> 1
          [] sym = "." -> 3
          [] sym = "SP2" -> 78
          [] sym = "SP3" -> 79
          [] sym = "zh" -> 320
          [] sym = "a1" -> 97
          [] sym = "HH" -> 51
          [] sym = "AH0" -> 12]

\* SYMBOLS.contains(ph)
InSymbols(ph) == ph \in DOMAIN SymbolIndex

\* str::replace(special_s, ",")
ReplaceUnit(text, from, to) == [i \in 1..Len(text) |-> IF text[i] = from THEN to ELSE text[i]]

\* str::contains(special_s)
Contains(text, u) == \E i \in 1..Len(text) : text[i] = u

\* str::trim(): white space removed at both ends
Trim(text) == TrimMatches(text, "blank")

\* Chinese::replace_symbol on one unit: rep_map turns the Chinese full stop
\* into the period
ZhReplaceSymbolUnit(u) == IF u = "zh_stop" THEN "period" ELSE u

\* TextNormalizer::split on one unit: a space is removed, a special symbol
\* becomes ","
ZhSplitUnit(u) ==
    CASE u = "blank" -> <<>>
      [] u \in {"paren", "caret"} -> <<"comma">>
      [] OTHER -> <<u>>

RECURSIVE CollapseCommas(_)
\* TextNormalizer::split: a run of "," becomes one ","
CollapseCommas(text) ==
    IF Len(text) < 2 THEN text
    ELSE IF text[1] = "comma" /\ text[2] = "comma" THEN CollapseCommas(Tail(text))
    ELSE <<Head(text)>> \o CollapseCommas(Tail(text))

\* normalize_sentence and then Chinese::replace_punctuation on one unit: a
\* digit is verbalized, and only Chinese characters and punctuation survive
ZhNormalizeUnit(u) ==
    CASE u \in {"han", "rare", "nosym", "comma", "period"} -> <<u>>
      [] u = "digit" -> <<"han">>
      [] OTHER -> <<>>

\* Chinese::text_normalize: replace_symbol, then TextNormalizer::normalize
\* (split, with the sentences normalized one by one), then replace_punctuation
\* on each sentence, the sentences collected into one string
zh_text_normalize(text) ==
    LET replaced_text == [i \in 1..Len(text) |-> ZhReplaceSymbolUnit(text[i])]
        sentences ==
            CollapseCommas(Flatten([i \in 1..Len(replaced_text) |->
                                        ZhSplitUnit(replaced_text[i])]))
    IN  Flatten([i \in 1..Len(sentences) |-> ZhNormalizeUnit(sentences[i])])

\* Chinese::_g2p on one (initial, final) pair: the phonemes pushed
ZhPhonesOfUnit(u) ==
    CASE u = "han" -> <<"zh", "a1">>
      [] u = "rare" -> <<"hanzi">>
      [] u = "comma" -> <<",">>
      [] u = "period" -> <<".">>
      [] OTHER -> <<>>

\* Chinese::_g2p on one (initial, final) pair: the count pushed to word2ph
ZhWord2phOfUnit(u) ==
    CASE u = "han" -> <<Len(ZhPhonesOfUnit(u))>>
      [] u \in {"rare", "comma", "period"} -> <<1>>
      [] OTHER -> <<>>

\* Chinese::g2p: (phones, word2ph)
zh_g2p(norm_text) ==
    [phones |-> Flatten([i \in 1..Len(norm_text) |-> ZhPhonesOfUnit(norm_text[i])]),
     word2ph |-> Flatten([i \in 1..Len(norm_text) |-> ZhWord2phOfUnit(norm_text[i])])]

\* English::text_normalize then Chinese::replace_symbol
EnNormalizeUnit(u) ==
    CASE u = "digit" -> <<"word">>
      [] u = "zh_stop" -> <<"period">>
      [] OTHER -> <<u>>

\* English::g2p on one token
EnPhonesOfUnit(u) ==
    CASE u = "word" -> <<"HH", "AH0">>
      [] u = "period" -> <<".">>
      [] OTHER -> <<>>

\* the closure of clean_special: "," becomes the target symbol
MapComma(phones, target_symbol) ==
    [i \in 1..Len(phones) |-> IF phones[i] = "," THEN target_symbol ELSE phones[i]]

\* Iterator::filter
SelectSeqIn(phones) == SelectSeq(phones, InSymbols)

\* clean_special of sovits-rs/src/text_utils.rs: every phoneme is kept, and the
\* text returned is the replaced text, not the normalized one
clean_special(text, language, special_s, target_symbol) ==
    LET replaced == ReplaceUnit(text, special_s, "comma")
        g == IF language = CHINESE_LANG
               THEN zh_g2p(zh_text_normalize(replaced))
               ELSE [phones |-> <<>>, word2ph |-> <<>>]
    IN [phones |-> MapComma(g.phones, target_symbol),
        word2ph |-> g.word2ph,
        norm_text |-> replaced]

\* clean_special of src/text_utils.rs: only the phonemes found in SYMBOLS are
\* pushed to new_ph, word2ph is returned as g2p gave it
clean_special_src(text, language, special_s, target_symbol) ==
    LET replaced == ReplaceUnit(text, special_s, "comma")
        norm == IF language = CHINESE_LANG THEN zh_text_normalize(replaced) ELSE <<>>
        g == IF language = CHINESE_LANG
               THEN zh_g2p(norm)
               ELSE [phones |-> <<>>, word2ph |-> <<>>]
    IN [phones |-> MapComma(SelectSeqIn(g.phones), target_symbol),
        word2ph |-> g.word2ph,
        norm_text |-> norm]

\* clean_text_inf: the text of one language to (phones, word2ph, norm_text)
clean_text_inf(rev, text0, language0) ==
    LET known == language0 \in {ENGLISH_LANG, CHINESE_LANG, JAPANESE_LANG}
        text == IF known THEN text0 ELSE <<"blank">>
        language == IF known THEN language0 ELSE ENGLISH_LANG
        Special(sp, target) ==
            IF rev = "src" THEN clean_special_src(text, language, sp, target)
                           ELSE clean_special(text, language, sp, target)
    IN IF Contains(text, "yen") /\ language = CHINESE_LANG THEN Special("yen", "SP2")
       ELSE IF Contains(text, "caret") /\ language = CHINESE_LANG THEN Special("caret", "SP3")
       ELSE IF language = CHINESE_LANG
         THEN LET norm == zh_text_normalize(text) IN
              [phones |-> zh_g2p(norm).phones,
               word2ph |-> zh_g2p(norm).word2ph,
               norm_text |-> norm]
       ELSE IF language = ENGLISH_LANG
         THEN LET norm == Flatten([i \in 1..Len(text) |-> EnNormalizeUnit(text[i])]) IN
              [phones |-> Flatten([i \in 1..Len(norm) |-> EnPhonesOfUnit(norm[i])]),
               word2ph |-> <<>>,
               norm_text |-> norm]
       ELSE [phones |-> <<>>, word2ph |-> <<>>, norm_text |-> <<>>]

\* cleaned_text_to_sequence: symbol_to_id.get(symbol).unwrap_or(0)
cleaned_text_to_sequence(cleaned_texts) ==
    [i \in 1..Len(cleaned_texts) |->
        IF InSymbols(cleaned_texts[i]) THEN SymbolIndex[cleaned_texts[i]] ELSE 0]

\* the title mark put before the first piece of a segment that does not start
\* with a digit
WithTitle(text2, lang2, ei) ==
    IF ei = 0 /\ Head(text2) # "digit"
      THEN IF lang2 = CHINESE_LANG THEN <<"zh_stop">> \o text2
           ELSE IF lang2 = ENGLISH_LANG THEN <<"period", "blank">> \o text2
           ELSE text2
      ELSE text2

\* a merge test that is never true
NeverSameLanguage(langs, lang2) == FALSE

\* p_len > 0 && lang_len > 0 && norm_lang_len > 0 && lang_list[lang_len - 1] == lang2
SameLanguageAsLast(langs, lang2) == Len(langs) > 0 /\ langs[Len(langs)] = lang2

\* the index ei a piece may have in seg_texts2: the first piece visited is the
\* first of its segment; a later one is the first of a segment or follows
\* another piece of the segment zh_en_seg has split
PieceIndexes(count) == IF count = 0 THEN {0} ELSE {0, 1}

InitClean ==
    /\ revision \in {"sovits-rs", "src"}
    /\ cl_pc = "loop"
    /\ cl_count = 0
    /\ phones_list = <<>>
    /\ word2ph_list = <<>>
    /\ lang_list = <<>>
    /\ norm_text_list = <<>>
    /\ cl_merged = FALSE
    /\ cl_dropped = FALSE
    /\ IdleDecode
    /\ IdleServer
    /\ IdleInfer
    /\ IdleBert
    /\ IdleFn

\* one iteration of the inner loop on the piece (lang2, text2) at index ei of
\* its segment
ProcessPiece ==
    /\ cl_pc = "loop"
    /\ cl_count < MaxPieces
    /\ cl_count' = cl_count + 1
    /\ \E piece \in Pieces, ei \in PieceIndexes(cl_count) :
         IF piece.text = <<>>
           THEN UNCHANGED <<phones_list, word2ph_list, lang_list, norm_text_list,
                            cl_merged, cl_dropped>>
           ELSE LET text2 == WithTitle(piece.text, piece.lang, ei)
                    c == clean_text_inf(revision, text2, piece.lang)
                    phones == cleaned_text_to_sequence(c.phones)
                    n == Len(lang_list)
                IN IF SameLanguageAsLast(lang_list, piece.lang)
                     THEN /\ phones_list' = [phones_list EXCEPT ![n] = @ \o phones]
                          /\ word2ph_list' = [word2ph_list EXCEPT ![n] = @ \o c.word2ph]
                          /\ norm_text_list' = [norm_text_list EXCEPT ![n] = @ \o c.norm_text]
                          /\ cl_merged' = TRUE
                          /\ UNCHANGED <<lang_list, cl_dropped>>
                     ELSE IF Len(Trim(c.norm_text)) > 0
                       THEN /\ phones_list' = Append(phones_list, phones)
                            /\ lang_list' = Append(lang_list, piece.lang)
                            /\ word2ph_list' = Append(word2ph_list, c.word2ph)
                            /\ norm_text_list' = Append(norm_text_list, c.norm_text)
                            /\ UNCHANGED <<cl_merged, cl_dropped>>
                       ELSE /\ cl_dropped' = TRUE
                            /\ UNCHANGED <<phones_list, word2ph_list, lang_list,
                                           norm_text_list, cl_merged>>
    /\ UNCHANGED <<revision, cl_pc>>
    /\ UNCHANGED nonClnVars

\* the loops are over: CleanedText is returned
ReturnCleaned ==
    /\ cl_pc = "loop"
    /\ cl_pc' = "returned"
    /\ UNCHANGED <<revision, cl_count, phones_list, word2ph_list, lang_list,
                   norm_text_list, cl_merged, cl_dropped>>
    /\ UNCHANGED nonClnVars

NextClean ==
    \/ ProcessPiece
    \/ ReturnCleaned

SpecClean == InitClean /\ [][NextClean]_vars

(***************************************************************************)
(* Claims about get_cleaned_text_final (SpecClean).                        *)
(***************************************************************************)
RECURSIVE SumSeq(_)
SumSeq(ns) == IF ns = <<>> THEN 0 ELSE Head(ns) + SumSeq(Tail(ns))

\* C8: in every CleanedText, any two adjacent spans have different languages,
\* whatever pieces the segmenter yields, pieces with an empty normalized text
\* included.
C8_AdjacentSpansDiffer ==
    \A i \in 1..(Len(lang_list) - 1) : lang_list[i] # lang_list[i + 1]

\* a CleanedText of two spans was returned after one piece was merged into its
\* predecessor and one was dropped for its empty normalized text
C8_Witness ==
    /\ cl_pc = "returned"
    /\ Len(lang_list) = 2
    /\ cl_merged
    /\ cl_dropped

\* C9: for every span of every CleanedText, a Chinese span has the sum of its
\* word2ph equal to the number of its phoneme IDs and a span of another language
\* has an empty word2ph, also after merging and on the clean_special path.
C9_Word2phMatchesPhones ==
    \A i \in 1..Len(lang_list) :
        IF lang_list[i] = CHINESE_LANG
          THEN SumSeq(word2ph_list[i]) = Len(phones_list[i])
          ELSE word2ph_list[i] = <<>>

\* C11: every span of the CleanedText returned by get_cleaned_text_final for a
\* non-empty input has at least one phoneme ID.
C11_EverySpanHasPhoneme ==
    cl_pc = "returned" => \A i \in 1..Len(phones_list) : Len(phones_list[i]) >= 1

\* the units that stand for characters of the dropped-symbol set
DroppedSymbolUnits == {"paren", "caret"}

\* C12: the normalized string of every Chinese span contains no character of
\* the dropped-symbol set of the Chinese normalizer, spans that contain the
\* special symbols included.
C12_NoDroppedSymbolInNorm ==
    \A i \in 1..Len(lang_list) :
        lang_list[i] = CHINESE_LANG =>
            \A k \in 1..Len(norm_text_list[i]) : norm_text_list[i][k] \notin DroppedSymbolUnits

(***************************************************************************)
(* ChBertUtils::get_bert_features, called on the CleanedText that           *)
(* get_cleaned_text_final returned.  A matrix is modelled by its shape.     *)
(***************************************************************************)
\* the hidden size of the contextual encoder, the rows of a Chinese span's
\* matrix after the transpose
HiddenSize == 1024

\* the rows of hidden_states after slice(s![0, 1.., ..]): the tokenizer gives one
\* token per unit of the text, [CLS] in front and [SEP] behind, and [CLS] is cut
HiddenRows(norm_text) == (Len(norm_text) + 2) - 1

\* the columns of phone_level_feature.t(): every row r of hidden_states is
\* repeated word2ph[r] times
PhoneLevelCols(word2ph) == SumSeq(word2ph)

\* whether building phone_level_feature panics: a row index beyond hidden_states,
\* ndarray::stack of no array (a zero count), ndarray::concatenate of no array
PhoneLevelPanics(word2ph, rows) ==
    \/ word2ph = <<>>
    \/ Len(word2ph) > rows
    \/ \E k \in 1..Len(word2ph) : word2ph[k] = 0

\* get_bert_features is entered with the lists of the CleanedText
StartBert ==
    /\ cl_pc = "returned"
    /\ bf_pc = "idle"
    /\ bf_pc' = "loop"
    /\ UNCHANGED <<bf_i, bf_features, bf_phones_unpack, bf_norm_text_str, bf_result,
                   bf_encode_failed>>
    /\ UNCHANGED <<clnVars, decVars, srvVars, infVars, fnVars>>

\* one iteration of `for i in 0..language_list.len()`
BertSpan ==
    /\ bf_pc = "loop"
    /\ bf_i < Len(lang_list)
    /\ LET i == bf_i + 1
           phones_len == Len(phones_list[i])
           word2ph == word2ph_list[i]
           rows == HiddenRows(norm_text_list[i])
       IN /\ bf_i' = i
          /\ bf_norm_text_str' = bf_norm_text_str \o norm_text_list[i]
          /\ bf_phones_unpack' = bf_phones_unpack \o phones_list[i]
          /\ phones_list' = [phones_list EXCEPT ![i] = <<>>]
          /\ IF lang_list[i] = CHINESE_LANG
               THEN \E encode_ok \in BOOLEAN, run_ok \in BOOLEAN :
                      IF ~encode_ok
                        THEN /\ bf_encode_failed' = TRUE
                             /\ bf_pc' = IF revision = "src" THEN "loop" ELSE "panicked"
                             /\ UNCHANGED bf_features
                        ELSE IF ~run_ok \/ PhoneLevelPanics(word2ph, rows)
                          THEN /\ bf_pc' = "panicked"
                               /\ UNCHANGED <<bf_features, bf_encode_failed>>
                          ELSE /\ bf_features' =
                                     Append(bf_features,
                                            [rows |-> HiddenSize,
                                             cols |-> PhoneLevelCols(word2ph)])
                               /\ UNCHANGED <<bf_pc, bf_encode_failed>>
               ELSE /\ bf_features' =
                          Append(bf_features, [rows |-> FeatureRows, cols |-> phones_len])
                    /\ UNCHANGED <<bf_pc, bf_encode_failed>>
    /\ UNCHANGED bf_result
    /\ UNCHANGED <<revision, cl_pc, cl_count, word2ph_list, lang_list, norm_text_list,
                   cl_merged, cl_dropped>>
    /\ UNCHANGED <<decVars, srvVars, infVars, fnVars>>

\* ndarray::concatenate(Axis(1), features): an error, hence a panic, on no matrix
\* or on matrices of different row counts
BertConcat ==
    /\ bf_pc = "loop"
    /\ bf_i = Len(lang_list)
    /\ IF \/ bf_features = <<>>
          \/ \E k \in 1..Len(bf_features) : bf_features[k].rows # bf_features[1].rows
         THEN /\ bf_pc' = "panicked"
              /\ UNCHANGED bf_result
         ELSE /\ bf_pc' = "returned"
              /\ bf_result' =
                    [rows |-> bf_features[1].rows,
                     cols |-> SumSeq([k \in 1..Len(bf_features) |-> bf_features[k].cols])]
    /\ UNCHANGED <<bf_i, bf_features, bf_phones_unpack, bf_norm_text_str,
                   bf_encode_failed>>
    /\ UNCHANGED <<clnVars, decVars, srvVars, infVars, fnVars>>

NextBert ==
    \/ ProcessPiece
    \/ ReturnCleaned
    \/ StartBert
    \/ BertSpan
    \/ BertConcat

SpecBert == InitClean /\ [][NextBert]_vars

(***************************************************************************)
(* Claims about get_bert_features (SpecBert).                              *)
(***************************************************************************)

\* C10: for every CleanedText, get_bert_features returns a feature matrix of
\* 1024 rows whose number of columns is the length of the returned phoneme-ID
\* sequence, also when a Chinese span cannot be tokenized: such a span does not
\* stop the call.
C10_FeatureColsMatchPhones ==
    /\ bf_pc = "returned" =>
          /\ bf_result.cols = Len(bf_phones_unpack)
          /\ bf_result.rows = 1024
    /\ bf_encode_failed => bf_pc # "panicked"

(***************************************************************************)
(* LangSegment::cut_texts as a call: the current revision (cut3, then the   *)
(* short-line merge) and the revision of src/text_utils.rs (cut3, cut2,     *)
(* then the merge).                                                        *)
(***************************************************************************)
\* the characters of self.splits, by name
Splits ==
    {ZhComma, ZhStop, "zh_question", "zh_exclam", "comma", "period", "question",
     "exclam", "tilde", "colon", "zh_colon", "em_dash", "ellipsis"}

RECURSIVE SplitAfter(_, _)
\* the loop of LangSegment::split: a piece ends after every character of splits
SplitAfter(s, cur) ==
    IF s = <<>> THEN IF cur = <<>> THEN <<>> ELSE <<cur>>
    ELSE IF Head(s) \in Splits THEN <<Append(cur, Head(s))>> \o SplitAfter(Tail(s), <<>>)
    ELSE SplitAfter(Tail(s), Append(cur, Head(s)))

\* LangSegment::split of a non-empty text: a Chinese full stop is appended
\* unless the text ends with a character of splits
split(todo_text) ==
    SplitAfter(IF todo_text[Len(todo_text)] \in Splits
                 THEN todo_text
                 ELSE Append(todo_text, ZhStop),
               <<>>)

RECURSIVE Cut2Loop(_, _, _, _, _)
\* the for loop of cut2 and the push of the last tmp_str
Cut2Loop(inps, max_num, opts, summ, tmp_str) ==
    IF inps = <<>>
      THEN IF tmp_str # <<>> THEN Append(opts, tmp_str) ELSE opts
      ELSE LET s2 == summ + Len(Head(inps))
               t2 == tmp_str \o Head(inps)
           IN IF s2 > max_num
                THEN Cut2Loop(Tail(inps), max_num, Append(opts, t2), 0, <<>>)
                ELSE Cut2Loop(Tail(inps), max_num, opts, s2, t2)

\* cut2 of a text that is not empty once its line feeds are trimmed
cut2(inp0, max_num) ==
    LET inp == TrimMatches(inp0, Newline)
        inps == split(inp)
        opts == Cut2Loop(inps, max_num, <<>>, 0, <<>>)
        n == Len(opts)
        merged == IF n > 1 /\ Len(opts[n]) < max_num
                    THEN [k \in 1..(n - 1) |->
                            IF k = n - 1 THEN opts[n - 1] \o opts[n] ELSE opts[k]]
                    ELSE opts
    IN IF Len(inps) < 2 THEN inp ELSE Join(merged, Newline)

\* cut_texts of src/text_utils.rs; split panics on the empty text
\* (todo_text_len - 1 on a length of 0, then nth(..).unwrap())
cut_texts_src(text, max_num) ==
    LET t3 == cut3(text, max_num) IN
    IF TrimMatches(t3, Newline) = <<>>
      THEN [panicked |-> TRUE, chunks |-> <<>>]
      ELSE [panicked |-> FALSE,
            chunks |-> merge_short_text_in_array(Split(cut2(t3, max_num), Newline),
                                                 MergeThreshold)]

\* longest text of a cut_texts call
MaxTextLen == 7
\* largest max_num of a cut_texts call
MaxMaxNum == 3
\* the characters of the texts: an ordinary one, the two cut marks, the line feed
CutAlphabet == {"a", ZhStop, ZhComma, Newline}
CutTextInputs == UNION {[1..n -> CutAlphabet] : n \in 0..MaxTextLen}

InitCut ==
    /\ fn_pc = "called"
    /\ fn_args \in [revision : {"sovits-rs", "src"},
                    text : CutTextInputs,
                    max_num : 1..MaxMaxNum]
    /\ fn_result = <<>>
    /\ IdleDecode
    /\ IdleServer
    /\ IdleInfer
    /\ IdleClean
    /\ IdleBert

\* the call runs to its end
CutTexts ==
    /\ fn_pc = "called"
    /\ IF fn_args.revision = "src"
         THEN LET r == cut_texts_src(fn_args.text, fn_args.max_num) IN
              /\ fn_pc' = IF r.panicked THEN "panicked" ELSE "returned"
              /\ fn_result' = r.chunks
         ELSE /\ fn_pc' = "returned"
              /\ fn_result' = cut_texts(fn_args.text, fn_args.max_num)
    /\ UNCHANGED fn_args
    /\ UNCHANGED nonFnVars

NextCut == CutTexts

SpecCut == InitCut /\ [][NextCut]_vars

(***************************************************************************)
(* Claims about cut_texts (SpecCut).                                       *)
(***************************************************************************)

\* C13: for every text and every maxChars, each chunk cut_texts returns has at
\* most maxChars characters.
C13_ChunksAtMostMaxChars ==
    fn_pc = "returned" =>
        \A k \in 1..Len(fn_result) : Len(fn_result[k]) <= fn_args.max_num

\* C14: cut_texts applied to the empty string returns an empty list, for every
\* maxChars.
C14_EmptyTextNoChunks ==
    (fn_pc \in {"returned", "panicked"} /\ fn_args.text = <<>>) =>
        (fn_pc = "returned" /\ fn_result = <<>>)

\* C15 as stated: after the short-line merge, every chunk cut_texts returns has
\* at least 5 characters.
C15_EveryChunkAtLeastFive ==
    fn_pc = "returned" => \A k \in 1..Len(fn_result) : Len(fn_result[k]) >= 5

\* C15 as amended: every chunk cut_texts returns has at least 5 characters,
\* unless the whole text is returned as one single chunk of fewer than 5
\* characters.
C15_ChunkAtLeastFiveOrSingle ==
    fn_pc = "returned" =>
        \/ \A k \in 1..Len(fn_result) : Len(fn_result[k]) >= 5
        \/ Len(fn_result) = 1 /\ Len(fn_result[1]) < 5

\* a text cut into a first line of 5 characters and a short second line has
\* come back as one chunk
C15_Witness ==
    /\ fn_pc = "returned"
    /\ Len(Split(cut3(fn_args.text, fn_args.max_num), Newline)) = 2
    /\ Len(Split(cut3(fn_args.text, fn_args.max_num), Newline)[1]) = 5
    /\ Len(fn_result) = 1
    /\ Len(fn_result[1]) = 6

(***************************************************************************)
(* The Chinese number reader, Num                                          *)
(* (sovits-rs/src/text/zh_normalization/num.rs), and the sentence          *)
(* normalizer that calls it (text_normalization.rs).                       *)
(*                                                                         *)
(* A string is the sequence of its characters.  The ASCII characters are   *)
(* written as themselves; the others are named:                            *)
(*   "arabic_indic_3"  U+0663, a decimal digit (category Nd), 2 bytes      *)
(*   "fullwidth_1"     U+FF11, a decimal digit (category Nd), 3 bytes      *)
(*   "ling" "yi" "er" "san" "si" "wu" "liu" "qi" "ba" "jiu"   the numerals *)
(*   "yao"  the spoken alternative of one;  "shi" "bai" "qian" "wan"       *)
(*   "yi_10e8"  the units;  "fu" minus;  "dian" point;  "fen" "zhi"  the   *)
(*   two characters of a fraction;  "dao"  to.                             *)
(* A numeric literal is a record of the groups its regex captures.         *)
(***************************************************************************)

MAX_NUMERIC_LENGTH == 13

AsciiDigits == {"0", "1", "2", "3", "4", "5", "6", "7", "8", "9"}

\* characters `\d` matches that are no key of DIGITS
UnicodeDigits == {"arabic_indic_3", "fullwidth_1"}

\* lazy_static DIGITS: the ASCII digit to its numeral
DIGITS ==
    [c \in AsciiDigits |->
        CASE c = "0" -> "ling" [] c = "1" -> "yi"  [] c = "2" -> "er"
          [] c = "3" -> "san"  [] c = "4" -> "si"  [] c = "5" -> "wu"
          [] c = "6" -> "liu"  [] c = "7" -> "qi"  [] c = "8" -> "ba"
          [] c = "9" -> "jiu"]

\* lazy_static UINT: the power of ten to its unit
UINT ==
    [p \in {1, 2, 3, 4, 8} |->
        CASE p = 1 -> "shi" [] p = 2 -> "bai" [] p = 3 -> "qian"
          [] p = 4 -> "wan" [] p = 8 -> "yi_10e8"]

\* char::len_utf8
LenUtf8(c) ==
    IF c = "arabic_indic_3" THEN 2
    ELSE IF c \in AsciiDigits \cup {"-", ".", "%", "/", "~", "e"} THEN 1
    ELSE 3

RECURSIVE StrLen(_)
\* str::len, in bytes
StrLen(s) == IF s = <<>> THEN 0 ELSE LenUtf8(Head(s)) + StrLen(Tail(s))

\* str::is_char_boundary
IsCharBoundary(s, b) == \E k \in 0..Len(s) : StrLen(SubSeq(s, 1, k)) = b

\* how many characters lie before byte b, a character boundary
CharsBefore(s, b) == CHOOSE k \in 0..Len(s) : StrLen(SubSeq(s, 1, k)) = b

\* `keys.iter().find(|&&power| power < count).copied().unwrap_or(8)`
LargestUnit(count) ==
    IF 8 < count THEN 8
    ELSE IF 4 < count THEN 4
    ELSE IF 3 < count THEN 3
    ELSE IF 2 < count THEN 2
    ELSE IF 1 < count THEN 1
    ELSE 8

RECURSIVE get_value_panics(_)
\* Whether get_value ends in a panic.  `DIGITS[&c]` panics on a character that
\* is no key; `chars().count() - largest_unit` underflows (a panic with
\* overflow checks, an out-of-range slice without them); the slice panics when
\* split_point, a count of characters used as a byte index, is no character
\* boundary; a split point of 0 makes the call recurse on its own argument
\* until the stack overflows.
get_value_panics(value_string) ==
    LET stripped     == TrimStart(value_string, "0")
        stripped_len == StrLen(stripped)
        largest_unit == LargestUnit(Len(stripped))
        split_point  == Len(value_string) - largest_unit
    IN  IF stripped_len = 0 THEN FALSE
        ELSE IF stripped_len = 1 THEN stripped[1] \notin DOMAIN DIGITS
        ELSE \/ split_point <= 0
             \/ ~IsCharBoundary(value_string, split_point)
             \/ LET k == CharsBefore(value_string, split_point) IN
                \/ get_value_panics(SubSeq(value_string, 1, k))
                \/ get_value_panics(SubSeq(value_string, k + 1, Len(value_string)))

RECURSIVE get_value(_, _)
\* get_value where it does not panic
get_value(value_string, use_zero) ==
    LET stripped     == TrimStart(value_string, "0")
        stripped_len == StrLen(stripped)
        value_len    == StrLen(value_string)
        largest_unit == LargestUnit(Len(stripped))
        split_point  == Len(value_string) - largest_unit
    IN  IF stripped_len = 0 THEN <<>>
        ELSE IF stripped_len = 1 THEN
            LET digit == DIGITS[stripped[1]] IN
            IF use_zero /\ stripped_len < value_len
            THEN <<DIGITS["0"], digit>>
            ELSE <<digit>>
        ELSE
            LET k           == CharsBefore(value_string, split_point)
                first_part  == SubSeq(value_string, 1, k)
                second_part == SubSeq(value_string, k + 1, Len(value_string))
            IN  get_value(first_part, TRUE) \o <<UINT[largest_unit]>>
                    \o get_value(second_part, TRUE)

\* verbalize_digits: each digit by its numeral, any other character kept; with
\* alt_one every "yi" becomes "yao"
verbalize_digits(value, alt_one) ==
    [i \in 1..Len(value) |->
        LET d == IF value[i] \in DOMAIN DIGITS THEN DIGITS[value[i]] ELSE value[i]
        IN  IF alt_one /\ d = "yi" THEN "yao" ELSE d]

\* verbalize_cardinal where it does not panic
verbalize_cardinal(sentence, with_limit) ==
    IF sentence = <<>> THEN sentence
    ELSE IF with_limit /\ (Head(sentence) = "0" \/ StrLen(sentence) > MAX_NUMERIC_LENGTH)
    THEN verbalize_digits(sentence, TRUE)
    ELSE LET value_string == TrimStart(sentence, "0") IN
         IF value_string = <<>> THEN <<DIGITS["0"]>>
         ELSE LET result_symbols == get_value(value_string, TRUE) IN
              IF /\ Len(result_symbols) >= 2
                 /\ result_symbols[1] = DIGITS["1"]
                 /\ result_symbols[2] = UINT[1]
              THEN Tail(result_symbols)
              ELSE result_symbols

\* whether verbalize_cardinal ends in a panic: only get_value can
verbalize_cardinal_panics(sentence, with_limit) ==
    /\ sentence # <<>>
    /\ ~(with_limit /\ (Head(sentence) = "0" \/ StrLen(sentence) > MAX_NUMERIC_LENGTH))
    /\ get_value_panics(TrimStart(sentence, "0"))

\* str::split_once('.'): the index of the first point, 0 when there is none
PointAt(value) ==
    IF \E i \in 1..Len(value) : value[i] = "."
    THEN CHOOSE i \in 1..Len(value) :
            value[i] = "." /\ \A j \in 1..(i - 1) : value[j] # "."
    ELSE 0

\* num2str where it does not panic
num2str(value, with_limit) ==
    LET p == PointAt(value) IN
    IF p > 0
    THEN LET int     == SubSeq(value, 1, p - 1)
             dec     == SubSeq(value, p + 1, Len(value))
             result  == verbalize_cardinal(int, FALSE)
             decimal == TrimEnd(dec, "0")
         IN  IF decimal # <<>>
             THEN (IF result = <<>> THEN <<"ling">> ELSE result)
                      \o <<"dian">> \o verbalize_digits(decimal, FALSE)
             ELSE result
    ELSE verbalize_cardinal(value, with_limit)

num2str_panics(value, with_limit) ==
    LET p == PointAt(value) IN
    IF p > 0
    THEN verbalize_cardinal_panics(SubSeq(value, 1, p - 1), FALSE)
    ELSE verbalize_cardinal_panics(value, with_limit)

\* is_all_zero
is_all_zero(value) == \A i \in 1..Len(value) : value[i] = "0"

\* the text of group 2 of RE_NUMBER, RE_PERCENTAGE, RE_SCIENTIFIC: the digits
\* and, when there is a decimal part, the point and its digits
WithDecimal(int, dec) == IF dec = <<>> THEN int ELSE int \o <<".">> \o dec

\* the outcome of a replacer: a panic, or the replacement text
Outcome(panics, text) ==
    [panicked |-> panics, out |-> IF panics THEN <<>> ELSE text]

\* `format!("{}{}", sign, number)` with the minus for a non-empty sign
Signed(sign, text) == IF sign # <<>> THEN <<"fu">> \o text ELSE text

\* the sign replace_number and replace_frac keep: none for a number of zeros
SignUnlessZero(sign, number) ==
    IF sign # <<>> /\ ~is_all_zero(number) THEN sign ELSE <<>>

\* what a replacer makes of num2str(value, with_limit):
\* `format!("{}{}{}", sign, prefix, number)`, or the panic of num2str
OfNum2str(value, with_limit, sign, prefix) ==
    Outcome(num2str_panics(value, with_limit),
            Signed(sign, prefix \o num2str(value, with_limit)))

\* a variant of the replacer of replace_number that applies the limit to
\* every number
replace_number_limited(sign, number) ==
    OfNum2str(number, TRUE, sign, <<>>)

\* the replacer of replace_number on one match of RE_NUMBER, given the sign it
\* keeps: the limit applies when no minus is emitted
replace_number_signed(sign, number) ==
    OfNum2str(number, sign = <<>>, sign, <<>>)

\* the replacer of replace_number on one match of RE_NUMBER with groups
\* sign (1) and number (2)
replace_number(sign, number) ==
    replace_number_signed(SignUnlessZero(sign, number), number)

\* two outcomes joined by the text between them
Joined(a, between, b) ==
    Outcome(a.panicked \/ b.panicked, a.out \o between \o b.out)

\* the replacer of replace_frac on one match of RE_FRAC
replace_frac(sign, nominator, denominator) ==
    Joined(OfNum2str(denominator, FALSE, SignUnlessZero(sign, nominator), <<>>),
           <<"fen", "zhi">>,
           OfNum2str(nominator, FALSE, <<>>, <<>>))

\* a variant of replace_percentage that drops the sign of a zero
replace_percentage_zero_unsigned(sign, percent) ==
    OfNum2str(percent, FALSE, SignUnlessZero(sign, percent), <<"bai", "fen", "zhi">>)

\* the replacer of replace_percentage on one match of RE_PERCENTAGE
replace_percentage(sign, percent) ==
    OfNum2str(percent, FALSE, sign, <<"bai", "fen", "zhi">>)

\* the replacer of replace_range on one match of RE_RANGE: group 1 and group 8
\* each go through replace_number, where RE_NUMBER matches the whole of them
replace_range(sign, first, sign_2, second) ==
    Joined(replace_number(sign, first), <<"dao">>, replace_number(sign_2, second))

\* The exponent texts of the scientific literals: small ones, the least i32,
\* and the least number above every i32.
ExponentTexts == {"-2147483648", "-2", "-1", "0", "1", "2", "2147483648"}

\* `exponent.parse::<i32>()`: Err beyond the i32 range; is_min tells the least
\* i32, whose value is not needed
ParseI32(text) ==
    CASE text = "-2147483648" -> [ok |-> TRUE,  is_min |-> TRUE,  value |-> 0]
      [] text = "2147483648"  -> [ok |-> FALSE, is_min |-> FALSE, value |-> 0]
      [] text = "-2" -> [ok |-> TRUE, is_min |-> FALSE, value |-> 0 - 2]
      [] text = "-1" -> [ok |-> TRUE, is_min |-> FALSE, value |-> 0 - 1]
      [] text = "0"  -> [ok |-> TRUE, is_min |-> FALSE, value |-> 0]
      [] text = "1"  -> [ok |-> TRUE, is_min |-> FALSE, value |-> 1]
      [] text = "2"  -> [ok |-> TRUE, is_min |-> FALSE, value |-> 2]

\* the replacer of replace_scientific on one match of RE_SCIENTIFIC with groups
\* sign (1), base (2) and exponent (4).  With the exponent i32::MIN, `-exp`
\* overflows: a panic with overflow checks, and without them a shift of
\* 2^64 - 2^31 whose `"0".repeat(shift - 1)` panics with a capacity overflow.
replace_scientific(sign, int, dec, exponent) ==
    LET exp    == ParseI32(exponent)
        number ==
            IF exp.ok /\ ~exp.is_min
            THEN IF exp.value >= 0
                 THEN LET shift   == exp.value
                          padding == IF shift > StrLen(dec)
                                     THEN Rep("0", shift - StrLen(dec)) ELSE <<>>
                      IN  int \o dec \o padding
                 ELSE LET shift == 0 - exp.value
                      IN  <<"0", ".">> \o Rep("0", shift - 1) \o int \o dec
            ELSE WithDecimal(int, dec)
    IN  IF exp.ok /\ exp.is_min
        THEN Outcome(TRUE, <<>>)
        ELSE OfNum2str(number, FALSE, sign, <<>>)

\* Num::normalize on a text that is one numeric literal: the fold of the
\* replace functions, of which the first whose regex matches rewrites the whole
\* literal.  RE_SCIENTIFIC needs an `e`, RE_FRAC a `/`, RE_PERCENTAGE a `%`,
\* RE_RANGE a `~` between two numbers; RE_NUMBER matches every other literal.
\* replace_default_num, replace_positive_quantifier and replace_negative_num
\* find nothing to rewrite afterwards: no run of seven digits, no measure word
\* and no minus sign is left.
num_normalize(lit) ==
    CASE lit.form = "scientific" ->
            replace_scientific(lit.sign, lit.int, lit.dec, lit.exponent)
      [] lit.form = "frac" ->
            replace_frac(lit.sign, lit.int, lit.second)
      [] lit.form = "percentage" ->
            replace_percentage(lit.sign, WithDecimal(lit.int, lit.dec))
      [] lit.form = "range" ->
            replace_range(lit.sign, WithDecimal(lit.int, lit.dec), <<>>, lit.second)
      [] lit.form = "number" ->
            replace_number(lit.sign, WithDecimal(lit.int, lit.dec))

\* TextNormalizer::translate: the full-width digit to its ASCII digit
translate(sentence) ==
    [i \in 1..Len(sentence) |->
        IF sentence[i] = "fullwidth_1" THEN "1" ELSE sentence[i]]

\* TextNormalizer::normalize on a sentence that is one numeric literal.  split
\* finds no sentence mark and no special symbol in it and returns the one
\* sentence; normalize_sentence translates it and hands it to Num::normalize.
\* The date, time, measure and telephone rewriters that run in between match
\* none of the literals this is applied to (ShortLiteral), and post_replace
\* finds no symbol in the numerals.
text_normalizer_normalize(lit) ==
    LET translated == [lit EXCEPT !.int = translate(lit.int),
                                  !.dec = translate(lit.dec),
                                  !.second = translate(lit.second)]
        r == num_normalize(translated)
    IN  [panicked |-> r.panicked,
         out      |-> IF r.panicked THEN <<>> ELSE <<r.out>>]

\* ---- the inputs ----

\* most digits of the short head of a digit string
MaxHeadDigits == 3
\* the digits heads are made of
HeadDigits == {"0", "1", "2", "arabic_indic_3", "fullwidth_1"}
\* how many times the fill digit follows the head: not at all, or up to the
\* lengths around MAX_NUMERIC_LENGTH
FillLens == {0} \cup ((MAX_NUMERIC_LENGTH - 2)..MAX_NUMERIC_LENGTH)
FillDigits == {"0", "5"}
Heads == UNION {[1..n -> HeadDigits] : n \in 1..MaxHeadDigits}
DigitStrings == {h \o Rep(f, n) : h \in Heads, f \in FillDigits, n \in FillLens}
ShortDigitStrings == {<<"0">>, <<"3">>, <<"1", "0">>}
DecimalParts == {<<>>, <<"0">>, <<"5">>, <<"0", "5">>}
Signs == {<<>>, <<"-">>}

Literals ==
    [form : {"number", "percentage"}, sign : Signs, int : DigitStrings,
     dec : DecimalParts, second : {<<>>}, exponent : {"0"}]
    \cup
    [form : {"frac", "range"}, sign : Signs, int : DigitStrings,
     dec : {<<>>}, second : ShortDigitStrings, exponent : {"0"}]
    \cup
    [form : {"scientific"}, sign : Signs, int : Heads,
     dec : DecimalParts, second : {<<>>}, exponent : ExponentTexts]

\* a literal none of RE_DATE, RE_DATE2, RE_TIME, RE_TIME_RANGE, the measure
\* table and the telephone regexes match: no year mark, no colon, no unit,
\* at most one of `- / .` between digits, fewer than seven digits in a row
ShortLiteral(lit) == Len(lit.int) <= MaxHeadDigits

InitNum ==
    /\ fn_pc = "called"
    /\ fn_args \in {a \in [entry : {"Num::normalize", "TextNormalizer::normalize"},
                          lit : Literals] :
                      a.entry = "TextNormalizer::normalize" => ShortLiteral(a.lit)}
    /\ fn_result = <<>>
    /\ IdleDecode
    /\ IdleServer
    /\ IdleInfer
    /\ IdleClean
    /\ IdleBert

\* Num::normalize runs to its end
NumNormalize ==
    /\ fn_pc = "called"
    /\ fn_args.entry = "Num::normalize"
    /\ LET r == num_normalize(fn_args.lit) IN
       /\ fn_pc' = IF r.panicked THEN "panicked" ELSE "returned"
       /\ fn_result' = r.out
    /\ UNCHANGED fn_args
    /\ UNCHANGED nonFnVars

\* TextNormalizer::normalize runs to its end
TextNormalizerNormalize ==
    /\ fn_pc = "called"
    /\ fn_args.entry = "TextNormalizer::normalize"
    /\ LET r == text_normalizer_normalize(fn_args.lit) IN
       /\ fn_pc' = IF r.panicked THEN "panicked" ELSE "returned"
       /\ fn_result' = r.out
    /\ UNCHANGED fn_args
    /\ UNCHANGED nonFnVars

NextNum == NumNormalize \/ TextNormalizerNormalize

SpecNum == InitNum /\ [][NextNum]_vars

(***************************************************************************)
(* Claims about the Chinese number reader (SpecNum).                       *)
(***************************************************************************)

\* C16: the Chinese text normalizer never fails: for every input string
\* TextNormalizer::normalize returns a list of strings and no step of it
\* reaches a panic or error state.
C16_NormalizerNeverPanics ==
    fn_args.entry = "TextNormalizer::normalize" => fn_pc # "panicked"

\* the literal of the call is a plain number of ASCII digits
AsciiNumber(lit) ==
    /\ lit.form = "number"
    /\ \A i \in 1..Len(lit.int) : lit.int[i] \in AsciiDigits
    /\ \A i \in 1..Len(lit.dec) : lit.dec[i] \in AsciiDigits

\* the reading of the integer part in a result: what stands after the minus
\* and before the point
IntegerReading(out) ==
    LET u == IF out # <<>> /\ Head(out) = "fu" THEN Tail(out) ELSE out
        p == IF \E i \in 1..Len(u) : u[i] = "dian"
             THEN CHOOSE i \in 1..Len(u) :
                     u[i] = "dian" /\ \A j \in 1..(i - 1) : u[j] # "dian"
             ELSE Len(u) + 1
    IN  SubSeq(u, 1, p - 1)

\* a digit string read as magnitudes: leading zeros dropped, units between the
\* digits, a leading "yi" "shi" said "shi"
Magnitudes(int) ==
    LET v == TrimStart(int, "0")
        r == get_value(v, TRUE)
    IN  IF v = <<>> THEN <<"ling">>
        ELSE IF Len(r) >= 2 /\ r[1] = "yi" /\ r[2] = "shi" THEN Tail(r)
        ELSE r

\* a digit string read digit by digit, one said "yao"
DigitByDigit(int) ==
    [i \in 1..Len(int) |-> IF int[i] = "1" THEN "yao" ELSE DIGITS[int[i]]]

\* at most 13 digits and no leading 0
UnderLimit(int) == Len(int) <= MAX_NUMERIC_LENGTH /\ Head(int) # "0"

\* the result starts with the minus
SaysMinus(out) == out # <<>> /\ Head(out) = "fu"

\* C18 as stated: Num::normalize reads every integer of at most 13 digits
\* without a leading 0 as magnitudes, and every digit string that is longer
\* than 13 digits or starts with 0 digit by digit with "yao" for 1, whether or
\* not the number carries a sign or a decimal part.
C18_LimitDecidesReading ==
    (fn_pc = "returned" /\ fn_args.entry = "Num::normalize" /\ AsciiNumber(fn_args.lit)) =>
        IntegerReading(fn_result) =
            IF UnderLimit(fn_args.lit.int)
            THEN Magnitudes(fn_args.lit.int)
            ELSE DigitByDigit(fn_args.lit.int)

\* C18 as amended: an integer of at most 13 digits without a leading 0 is read
\* as magnitudes; a digit string that is longer or starts with 0 is read digit
\* by digit with "yao" for 1 when the number has no decimal part and is given
\* no minus, and as magnitudes when it is given the minus or has a decimal
\* part.
C18_LimitDecidesReadingOfBareIntegers ==
    (fn_pc = "returned" /\ fn_args.entry = "Num::normalize" /\ AsciiNumber(fn_args.lit)) =>
        IntegerReading(fn_result) =
            IF \/ UnderLimit(fn_args.lit.int)
               \/ SaysMinus(fn_result)
               \/ fn_args.lit.dec # <<>>
            THEN Magnitudes(fn_args.lit.int)
            ELSE DigitByDigit(fn_args.lit.int)

\* a negative integer of 14 digits has been read as magnitudes, and the reading
\* differs from the digit-by-digit one
C18_Witness ==
    /\ fn_pc = "returned"
    /\ fn_args.entry = "Num::normalize"
    /\ AsciiNumber(fn_args.lit)
    /\ fn_args.lit.sign # <<>>
    /\ fn_args.lit.dec = <<>>
    /\ Len(fn_args.lit.int) = MAX_NUMERIC_LENGTH + 1
    /\ Head(fn_args.lit.int) # "0"
    /\ fn_result = <<"fu">> \o Magnitudes(fn_args.lit.int)
    /\ IntegerReading(fn_result) # DigitByDigit(fn_args.lit.int)

\* the digits of the number (of the numerator, of the first bound) are not all 0
NonZero(lit) ==
    \/ \E i \in 1..Len(lit.int) : lit.int[i] # "0"
    \/ \E i \in 1..Len(lit.dec) : lit.dec[i] # "0"

\* C19 as stated: in every numeric form a leading minus sign is verbalized as
\* the minus exactly when the absolute value of the number is not zero.
C19_MinusIffNonZero ==
    (fn_pc = "returned" /\ fn_args.entry = "Num::normalize") =>
        (SaysMinus(fn_result) <=> (fn_args.lit.sign # <<>> /\ NonZero(fn_args.lit)))

\* C19 as amended: in the fraction, range and integer forms without a decimal
\* point the minus is said exactly when the digits after the sign are not all
\* 0; in the scientific and percentage forms, and for a number written with a
\* decimal point, every leading minus sign is said.
C19_MinusByForm ==
    (fn_pc = "returned" /\ fn_args.entry = "Num::normalize") =>
        (SaysMinus(fn_result) <=>
            /\ fn_args.lit.sign # <<>>
            /\ \/ fn_args.lit.form \in {"scientific", "percentage"}
               \/ fn_args.lit.dec # <<>>
               \/ ~is_all_zero(fn_args.lit.int))

\* a percentage of minus zero has been read with the minus
C19_Witness ==
    /\ fn_pc = "returned"
    /\ fn_args.entry = "Num::normalize"
    /\ fn_args.lit.form = "percentage"
    /\ fn_args.lit.sign # <<>>
    /\ ~NonZero(fn_args.lit)
    /\ fn_result = <<"fu", "bai", "fen", "zhi", "ling">>

(***************************************************************************)
(* Chinese::text_normalize applied to its own result (SpecZhNorm).         *)
(***************************************************************************)

\* longest text handed to the normalizer
MaxNormLen == 3
\* the units of the texts: a Chinese character, punctuation, symbols the
\* normalizer rewrites or drops, a space, a digit
ZhNormAlphabet ==
    {"han", "comma", "period", "zh_stop", "yen", "blank", "paren", "digit"}
ZhNormInputs == UNION {[1..n -> ZhNormAlphabet] : n \in 0..MaxNormLen}

InitZhNorm ==
    /\ fn_pc = "called"
    /\ fn_args \in [text : ZhNormInputs]
    /\ fn_result = <<>>
    /\ IdleDecode
    /\ IdleServer
    /\ IdleInfer
    /\ IdleClean
    /\ IdleBert

\* text_normalize(s)
NormalizeOnce ==
    /\ fn_pc = "called"
    /\ fn_pc' = "once"
    /\ fn_result' = <<zh_text_normalize(fn_args.text)>>
    /\ UNCHANGED fn_args
    /\ UNCHANGED nonFnVars

\* text_normalize(text_normalize(s))
NormalizeAgain ==
    /\ fn_pc = "once"
    /\ fn_pc' = "returned"
    /\ fn_result' = Append(fn_result, zh_text_normalize(fn_result[1]))
    /\ UNCHANGED fn_args
    /\ UNCHANGED nonFnVars

NextZhNorm == NormalizeOnce \/ NormalizeAgain

SpecZhNorm == InitZhNorm /\ [][NextZhNorm]_vars

\* C17: the Chinese normalizer is idempotent: for every string s,
\* text_normalize(text_normalize(s)) equals text_normalize(s).
C17_NormalizeIdempotent ==
    fn_pc = "returned" => fn_result[2] = fn_result[1]

(***************************************************************************)
(* English::normalize_numbers on a bare integer (src/text/english.rs).     *)
(* A spelling is the sequence of its words; "," is the comma               *)
(* english_numbers::convert puts after the thousands.                      *)
(***************************************************************************)

\* the words of 1..19
Ones ==
    <<"one", "two", "three", "four", "five", "six", "seven", "eight", "nine",
      "ten", "eleven", "twelve", "thirteen", "fourteen", "fifteen", "sixteen",
      "seventeen", "eighteen", "nineteen">>
\* the words of 10, 20, .., 90
Tens ==
    <<"ten", "twenty", "thirty", "forty", "fifty", "sixty", "seventy", "eighty",
      "ninety">>

BelowHundred(n) ==
    IF n < 20 THEN <<Ones[n]>>
    ELSE <<Tens[n \div 10]>> \o (IF n % 10 = 0 THEN <<>> ELSE <<Ones[n % 10]>>)

BelowThousand(n) ==
    IF n < 100 THEN BelowHundred(n)
    ELSE <<Ones[n \div 100], "hundred">>
            \o (IF n % 100 = 0 THEN <<>> ELSE <<"and">> \o BelowHundred(n % 100))

\* english_numbers::convert with spaces and conjunctions, below a million
convert(n) ==
    IF n = 0 THEN <<"zero">>
    ELSE IF n < 1000 THEN BelowThousand(n)
    ELSE BelowThousand(n \div 1000) \o <<"thousand">>
            \o (IF n % 1000 = 0 THEN <<>>
                ELSE IF n % 1000 < 100 THEN <<"and">> \o BelowThousand(n % 1000)
                ELSE <<",">> \o BelowThousand(n % 1000))

\* `.replace(", ", " ")`
WithoutCommas(words) == SelectSeq(words, LAMBDA w : w # ",")

\* the replacer of RE_NUMBER in normalize_numbers: the arms of `match number`
spell_number(number) ==
    IF number = 2000 THEN <<"two", "thousand">>
    ELSE IF number \in 2001..2009
    THEN <<"two", "thousand">> \o convert(number % 100)
    ELSE IF number \in 2010..2999 /\ number % 100 = 0
    THEN convert(number \div 100) \o <<"hundred">>
    ELSE IF number \in 1000..2999 THEN WithoutCommas(convert(number))
    ELSE convert(number)

\* largest bare integer handed to the normalizer
MaxNumber == 3000

InitEnglish ==
    /\ fn_pc = "called"
    /\ fn_args \in [number : 0..MaxNumber]
    /\ fn_result = <<>>
    /\ IdleDecode
    /\ IdleServer
    /\ IdleInfer
    /\ IdleClean
    /\ IdleBert

\* English::text_normalize on the digits of the number
NormalizeNumbers ==
    /\ fn_pc = "called"
    /\ fn_pc' = "returned"
    /\ fn_result' = spell_number(fn_args.number)
    /\ UNCHANGED fn_args
    /\ UNCHANGED nonFnVars

NextEnglish == NormalizeNumbers

SpecEnglish == InitEnglish /\ [][NextEnglish]_vars

\* C20: the English normalizer spells a bare integer N by band: 2000 gives
\* "two thousand"; 2001..2009 gives "two thousand" followed by
\* convert(N mod 100); every N in 1000..2999 with N mod 100 = 0, other than
\* 2000, gives convert(N / 100) followed by "hundred"; every other N goes
\* through the standard conversion (compared here without its commas).
C20_SpelledByBand ==
    fn_pc = "returned" =>
        LET N == fn_args.number IN
        fn_result =
            IF N = 2000 THEN <<"two", "thousand">>
            ELSE IF N \in 2001..2009 THEN <<"two", "thousand">> \o convert(N % 100)
            ELSE IF N \in 1000..2999 /\ N % 100 = 0
            THEN convert(N \div 100) \o <<"hundred">>
            ELSE WithoutCommas(convert(N))

(***************************************************************************)
(* MMSeg::seg, the segmenter of the pinyin engine                          *)
(* (sovits-rs/src/text/lazy_pinyin/mmseg.rs).  A text and a phrase are     *)
(* sequences of characters; phrases_dict is the set of its keys.           *)
(***************************************************************************)

\* MMSeg::new: every non-empty prefix of every phrase
PrefixSet(phrases_dict) ==
    UNION {{SubSeq(w, 1, i) : i \in 1..Len(w)} : w \in phrases_dict}

\* the `index` at which the for loop of seg breaks: the first one whose word
\* `remain.substring(0, index + 1)` is no prefix of a phrase; the number of
\* characters of remain when the loop runs to its end
BreakIndex(remain, prefix_set) ==
    IF \E i \in 1..Len(remain) : SubSeq(remain, 1, i) \notin prefix_set
    THEN (CHOOSE i \in 1..Len(remain) :
            /\ SubSeq(remain, 1, i) \notin prefix_set
            /\ \A j \in 1..(i - 1) : SubSeq(remain, 1, j) \in prefix_set) - 1
    ELSE Len(remain)

\* `remain.chars().map(|c| c.to_string())`
Chars(remain) == [i \in 1..Len(remain) |-> <<remain[i]>>]

RECURSIVE SegLoop(_, _, _)
\* the while loop of MMSeg::seg, from `remain` on
SegLoop(remain, no_non_phrases, phrases_dict) ==
    IF remain = <<>> THEN <<>>
    ELSE
        LET index   == BreakIndex(remain, PrefixSet(phrases_dict))
            matched == SubSeq(remain, 1, index)
            word    == SubSeq(remain, 1, index + 1)
        IN  IF index = Len(remain)
            THEN IF no_non_phrases /\ remain \notin phrases_dict
                 THEN Chars(remain)
                 ELSE <<remain>>
            ELSE IF matched # <<>> /\ (~no_non_phrases \/ matched \in phrases_dict)
            THEN <<matched>>
                    \o SegLoop(SubSeq(remain, index + 1, Len(remain)),
                               no_non_phrases, phrases_dict)
            ELSE IF no_non_phrases
            THEN <<<<Head(remain)>>>>
                    \o SegLoop(Tail(remain), no_non_phrases, phrases_dict)
            ELSE <<word>>
                    \o SegLoop(SubSeq(remain, index + 2, Len(remain)),
                               no_non_phrases, phrases_dict)

\* longest text handed to the segmenter
MaxSegLen == 4
SegAlphabet == {"a", "b", "c"}
SegTexts == UNION {[1..n -> SegAlphabet] : n \in 0..MaxSegLen}
\* the phrases the dictionaries are made of
SegPhrases == {<<"a", "b">>, <<"a", "b", "c", "a">>, <<"b", "c">>, <<"c">>}

InitSeg ==
    /\ fn_pc = "called"
    /\ fn_args \in [no_non_phrases : BOOLEAN,
                    phrases_dict : SUBSET SegPhrases,
                    text : SegTexts]
    /\ fn_result = <<>>
    /\ IdleDecode
    /\ IdleServer
    /\ IdleInfer
    /\ IdleClean
    /\ IdleBert

\* MMSeg::seg runs to its end
Seg ==
    /\ fn_pc = "called"
    /\ fn_pc' = "returned"
    /\ fn_result' = SegLoop(fn_args.text, fn_args.no_non_phrases, fn_args.phrases_dict)
    /\ UNCHANGED fn_args
    /\ UNCHANGED nonFnVars

NextSeg == Seg

SpecSeg == InitSeg /\ [][NextSeg]_vars

\* the phrases that are a prefix of remain
PhrasePrefixes(remain, phrases_dict) ==
    {w \in phrases_dict : Len(w) <= Len(remain) /\ SubSeq(remain, 1, Len(w)) = w}

RECURSIVE MaximumMatch(_, _)
\* the maximum-match segmentation: the longest phrase that is a prefix of the
\* remaining text, a single character when there is none
MaximumMatch(remain, phrases_dict) ==
    IF remain = <<>> THEN <<>>
    ELSE LET ws == PhrasePrefixes(remain, phrases_dict) IN
         IF ws = {}
         THEN <<<<Head(remain)>>>> \o MaximumMatch(Tail(remain), phrases_dict)
         ELSE LET w == CHOOSE x \in ws : \A z \in ws : Len(z) <= Len(x) IN
              <<w>> \o MaximumMatch(SubSeq(remain, Len(w) + 1, Len(remain)), phrases_dict)

\* C21: as configured by LazyPinyin (no_non_phrases), MMSeg::seg emits at every
\* position the longest dictionary entry that is a prefix of the remaining
\* text, and a single character only when no entry is a prefix of it.
C21_SegIsMaximumMatch ==
    (fn_pc = "returned" /\ fn_args.no_non_phrases) =>
        fn_result = MaximumMatch(fn_args.text, fn_args.phrases_dict)

(***************************************************************************)
(* The text inputs ChBertUtils::infer_wav builds for the vocoder           *)
(* (sovits-rs/src/bert_utils.rs).  An array is its shape and its data.     *)
(***************************************************************************)

\* `Array1::from_vec(v).insert_axis(Axis(0))`: the vector as the one row of a
\* two-dimensional array
InsertAxis0(v) == [shape |-> <<1, Len(v)>>, data |-> v]

\* the "text" and "text_lengths" inputs of vq_model for the phoneme ids of the
\* chunk; `text.shape()[0]` is the first axis
VqTextInputs(phones_list_unpack2) ==
    LET text == InsertAxis0(phones_list_unpack2) IN
    [text |-> text, text_lengths |-> <<text.shape[1]>>]

\* most phoneme ids of a chunk
MaxPhones == 4
\* the phoneme ids the chunks are made of
PhoneIds == {1, 78, 320}
ChunkPhones == UNION {[1..n -> PhoneIds] : n \in 1..MaxPhones}

InitVqInput ==
    /\ fn_pc = "called"
    /\ fn_args \in [phones_list_unpack2 : ChunkPhones]
    /\ fn_result = <<>>
    /\ IdleDecode
    /\ IdleServer
    /\ IdleInfer
    /\ IdleClean
    /\ IdleBert

\* infer_wav builds the inputs of the vocoder for one chunk
BuildVqInput ==
    /\ fn_pc = "called"
    /\ fn_pc' = "returned"
    /\ fn_result' = VqTextInputs(fn_args.phones_list_unpack2)
    /\ UNCHANGED fn_args
    /\ UNCHANGED nonFnVars

NextVqInput == BuildVqInput

SpecVqInput == InitVqInput /\ [][NextVqInput]_vars

\* C22: the text_lengths tensor passed to the vocoder is the one-element
\* vector holding the number of phoneme ids of the current chunk.
C22_TextLengthsIsPhoneCount ==
    fn_pc = "returned" =>
        fn_result.text_lengths = <<Len(fn_args.phones_list_unpack2)>>

\* C23: the reference wav16k array built at startup has shape (1, N16 + 4800):
\* exactly 4800 zero samples (0.3 s at 16 kHz) are appended to the N16 samples
\* of the reference waveform.
C23_Wav16kPaddedBy4800 ==
    \E n16 \in RefWavLens :
        /\ engine.wav32k_len = 2 * n16
        /\ engine.wav16k_len = n16 + 4800

(***************************************************************************)
(* Further claims about the decode loop (SpecDecode).                      *)
(***************************************************************************)

\* the loop of infer_wav ended on a sentinel and pred_semantic was sliced
SlicedAfterSentinel == iw_pc \in {"vocoder", "returned"} /\ loop_idx > 0

\* C24: when the decode loop ends by sentinel at step n, pred_semantic has
\* exactly n columns; they are the n tokens appended to y during the loop, in
\* emission order, with the last one replaced by 0; no column comes from the
\* first-stage y and no column equals 1024.
C24_PredSemanticIsLoopOutput ==
    SlicedAfterSentinel =>
        /\ Len(pred_semantic) = loop_idx
        /\ Len(y) = PromptLen + loop_idx
        /\ \A i \in 1..(loop_idx - 1) :
              /\ pred_semantic[i] = y[PromptLen + i]
              /\ pred_semantic[i] \in SampleVals
        /\ pred_semantic[loop_idx] = 0
        /\ \A i \in 1..loop_idx : pred_semantic[i] \notin {Sentinel, PromptTok}

\* the loop ended at step 3 on logits alone, and the slice was taken
C24_Witness ==
    /\ iw_pc = "vocoder"
    /\ loop_idx = 3
    /\ samples = Tok
    /\ logits = Sentinel
    /\ pred_semantic = <<Tok, Tok, 0>>

\* a stage-decoder run of the loop that returned
StageDecoderReturned == iw_pc = "loop" /\ idx' = idx + 1 /\ iw_pc' # "panicked"

\* C25: the stage-decoder call of step N+1 receives the k, v and y_emb returned
\* by step N (those of the first-stage decoder for step 1) and a y equal to the
\* y given to step N with step N's sample appended; y grows by one column per
\* step.
C25_StepUsesPredecessorOutputs ==
    [][StageDecoderReturned =>
          /\ kv_gen = idx
          /\ Len(y) = PromptLen + idx
          /\ kv_gen' = idx'
          /\ y' = Append(y, samples')
          /\ Len(y') = Len(y) + 1]_vars

\* the third step is about to run on the outputs of the second
C25_Witness ==
    /\ iw_pc = "loop"
    /\ idx = 2
    /\ kv_gen = 2
    /\ Len(y) = PromptLen + 2

(***************************************************************************)
(* The token merges of ToneSandhi (sovits-rs/src/text/tone_sandhi.rs).     *)
(* A token is a word, a sequence of characters, and its part-of-speech     *)
(* tag.  Characters are named by their pinyin.                             *)
(***************************************************************************)

\* the tone digit that ends the final of a character
ToneOf(c) ==
    CASE c \in {"ni", "hao", "xiao", "wo"} -> 3
      [] c \in {"ma", "yi", "ting"}        -> 1
      [] c \in {"er", "xue"}               -> 2
      [] c \in {"bu", "kan", "di", "qu"}   -> 4
      [] OTHER                             -> 5

\* the finals of the characters of a word, each kept as its tone digit
get_pinyin(word) == [i \in 1..Len(word) |-> ToneOf(word[i])]

all_tone_three(finals) == \A i \in 1..Len(finals) : finals[i] = 3

is_reduplication(word) == Len(word) = 2 /\ word[1] = word[2]

\* the tone test of the first pass (b1 && b2) and of the second pass
\* (prev_tone_is_three && curr_tone_is_three)
TonesQualify(second_pass, prev_word, word) ==
    IF second_pass
      THEN /\ Len(prev_word) > 0
           /\ Len(word) > 0
           /\ get_pinyin(prev_word)[Len(prev_word)] = 3
           /\ get_pinyin(word)[1] = 3
      ELSE all_tone_three(get_pinyin(prev_word)) /\ all_tone_three(get_pinyin(word))

\* last.0.push_str(word) on the last token of new_seg
PushStrOnLast(new_seg, word) ==
    IF new_seg = <<>>
      THEN new_seg
      ELSE [new_seg EXCEPT ![Len(new_seg)].word = @ \o word]

\* the loop `for (i, (word, pos)) in seg_cut.iter().enumerate()` of the two
\* passes, from token i (1-based) on
RECURSIVE ThreeTonesLoop(_, _, _, _, _)
ThreeTonesLoop(seg_cut, i, new_seg, merge_last, second_pass) ==
    IF i > Len(seg_cut)
      THEN new_seg
      ELSE IF /\ i > 1
              /\ TonesQualify(second_pass, seg_cut[i - 1].word, seg_cut[i].word)
              /\ merge_last[i - 1]
              /\ ~is_reduplication(seg_cut[i - 1].word)
              /\ Len(seg_cut[i - 1].word) + Len(seg_cut[i].word) <= 3
             THEN ThreeTonesLoop(seg_cut, i + 1, PushStrOnLast(new_seg, seg_cut[i].word),
                                 [merge_last EXCEPT ![i] = TRUE], second_pass)
             ELSE ThreeTonesLoop(seg_cut, i + 1, Append(new_seg, seg_cut[i]),
                                 merge_last, second_pass)

merge_continuous_three_tones(seg_cut) ==
    ThreeTonesLoop(seg_cut, 1, <<>>, [i \in 1..Len(seg_cut) |-> FALSE], FALSE)

merge_continuous_three_tones_2(seg_cut) ==
    ThreeTonesLoop(seg_cut, 1, <<>>, [i \in 1..Len(seg_cut) |-> FALSE], TRUE)

\* most tokens of a segmented sentence
MaxTokens == 3
\* the words of the sentences the passes are given
ToneWords ==
    { <<"ni">>, <<"hao">>, <<"ma">>, <<"ni", "hao">>, <<"hao", "hao">>,
      <<"ma", "ni">>, <<"xiao", "ma">> }
ToneTokens == [word : ToneWords, tag : {"n"}]
ToneSegCuts == UNION {[1..n -> ToneTokens] : n \in 1..MaxTokens}

InitThreeTones ==
    /\ fn_pc = "called"
    /\ fn_args \in [second_pass : BOOLEAN, seg_cut : ToneSegCuts]
    /\ fn_result = <<>>
    /\ IdleDecode
    /\ IdleServer
    /\ IdleInfer
    /\ IdleClean
    /\ IdleBert

MergeContinuousThreeTones ==
    /\ fn_pc = "called"
    /\ ~fn_args.second_pass
    /\ fn_pc' = "returned"
    /\ fn_result' = merge_continuous_three_tones(fn_args.seg_cut)
    /\ UNCHANGED fn_args
    /\ UNCHANGED nonFnVars

MergeContinuousThreeTones2 ==
    /\ fn_pc = "called"
    /\ fn_args.second_pass
    /\ fn_pc' = "returned"
    /\ fn_result' = merge_continuous_three_tones_2(fn_args.seg_cut)
    /\ UNCHANGED fn_args
    /\ UNCHANGED nonFnVars

NextThreeTones == MergeContinuousThreeTones \/ MergeContinuousThreeTones2

SpecThreeTones == InitThreeTones /\ [][NextThreeTones]_vars

\* the pair of tokens i - 1, i qualifies for the pass: the tones fit, the first
\* token is not a reduplication, and together they have at most 3 characters
PairQualifies(seg_cut, i, second_pass) ==
    /\ TonesQualify(second_pass, seg_cut[i - 1].word, seg_cut[i].word)
    /\ ~is_reduplication(seg_cut[i - 1].word)
    /\ Len(seg_cut[i - 1].word) + Len(seg_cut[i].word) <= 3

\* C26: each of the two three-tone passes merges an adjacent pair of tokens
\* into one token when the pair qualifies: the first qualifying pair of a
\* sentence comes out as one token.
C26_QualifyingPairIsMerged ==
    fn_pc = "returned" =>
        \A i \in 2..Len(fn_args.seg_cut) :
            ( /\ PairQualifies(fn_args.seg_cut, i, fn_args.second_pass)
              /\ \A j \in 2..(i - 1) : ~PairQualifies(fn_args.seg_cut, j, fn_args.second_pass) )
            => /\ Len(fn_result) < Len(fn_args.seg_cut)
               /\ fn_result[i - 1].word = fn_args.seg_cut[i - 1].word \o fn_args.seg_cut[i].word

(***************************************************************************)
(* ToneSandhi::yi_sandhi.  A final is kept as its last character: the tone *)
(* digit of a syllable, 0 for a punctuation mark and 9 for the digit 9,    *)
(* whose finals are the characters themselves.                             *)
(***************************************************************************)

\* the characters of PUNCTUATION
IsPunctuation(c) == c \in {"comma"}

\* char::is_numeric
IsNumeric(c) == c \in {"nine"}

\* a test that takes no word for a number
NeverNumberWord(word) == FALSE

\* b1 && b2: the word holds a "yi" and nothing but "yi" and numeric characters
IsNumberWord(word) ==
    /\ \E i \in 1..Len(word) : word[i] = "yi"
    /\ \A i \in 1..Len(word) : word[i] = "yi" \/ IsNumeric(word[i])

\* the loop `for (i, char) in word.chars().enumerate()` from character i on
RECURSIVE YiLoop(_, _, _)
YiLoop(word, finals, i) ==
    IF i > Len(word)
      THEN finals
      ELSE IF word[i] = "yi" /\ i < Len(word) /\ Len(finals) > i
             THEN IF finals[i + 1] = 4
                    THEN YiLoop(word, [finals EXCEPT ![i] = 2], i + 1)
                    ELSE IF ~IsPunctuation(word[i + 1])
                           THEN YiLoop(word, [finals EXCEPT ![i] = 4], i + 1)
                           ELSE YiLoop(word, finals, i + 1)
             ELSE YiLoop(word, finals, i + 1)

\* w_len == 3 && word.chars().nth(1) == 'yi' && w_0 == w_last
IsYiBetweenSame(word) == Len(word) = 3 /\ word[2] = "yi" /\ word[1] = word[3]

\* word.starts_with("di yi")
StartsWithDiYi(word) == Len(word) >= 2 /\ word[1] = "di" /\ word[2] = "yi"

yi_sandhi(word, finals) ==
    IF word = <<>>
      THEN finals
      ELSE IF IsNumberWord(word)
        THEN finals
        ELSE IF IsYiBetweenSame(word)
          THEN IF Len(finals) > 2 THEN [finals EXCEPT ![2] = 5] ELSE finals
          ELSE IF StartsWithDiYi(word)
            THEN IF Len(finals) > 2 THEN [finals EXCEPT ![2] = 1] ELSE finals
            ELSE YiLoop(word, finals, 1)

\* most characters of a word
MaxWordLen == 3
YiAlphabet == {"yi", "di", "kan", "ma", "comma", "nine"}
YiWords == UNION {[1..n -> YiAlphabet] : n \in 0..MaxWordLen}
\* the finals a character may come with
FinalsOfChar(c) ==
    CASE c = "yi"    -> {1, 2}
      [] c = "comma" -> {0}
      [] c = "nine"  -> {9}
      [] OTHER       -> {ToneOf(c)}
\* the lists of finals of a word, one final per character
FinalsOfWord(word) ==
    {f \in [1..Len(word) -> {0, 1, 2, 4, 9}] : \A i \in 1..Len(word) : f[i] \in FinalsOfChar(word[i])}

InitYi ==
    /\ fn_pc = "called"
    /\ \E word \in YiWords : \E finals \in FinalsOfWord(word) :
           fn_args = [word |-> word, finals |-> finals]
    /\ fn_result = <<>>
    /\ IdleDecode
    /\ IdleServer
    /\ IdleInfer
    /\ IdleClean
    /\ IdleBert

YiSandhi ==
    /\ fn_pc = "called"
    /\ fn_pc' = "returned"
    /\ fn_result' = yi_sandhi(fn_args.word, fn_args.finals)
    /\ UNCHANGED fn_args
    /\ UNCHANGED nonFnVars

NextYi == YiSandhi

SpecYi == InitYi /\ [][NextYi]_vars

\* every syllable that is not a "yi" comes back as it was given
OthersUnchanged ==
    \A i \in 1..Len(fn_args.word) :
        fn_args.word[i] # "yi" => fn_result[i] = fn_args.finals[i]

\* the tone of the "yi" at character i after the tone-4 and punctuation rules
YiBeforeNext(word, finals, i) ==
    IF finals[i + 1] = 4
      THEN 2
      ELSE IF IsPunctuation(word[i + 1]) THEN finals[i] ELSE 4

\* C27: yi_sandhi sets the tone of every "yi": neutral (5) in the middle of a
\* three-character word whose first and last characters are identical; tone 1
\* after "di"; tone 2 when the next syllable is tone 4; otherwise tone 4 unless
\* the next character is punctuation.  Every other syllable is unchanged.
C27_YiToneAsStated ==
    fn_pc = "returned" =>
        /\ OthersUnchanged
        /\ \A i \in 1..Len(fn_args.word) :
              fn_args.word[i] = "yi" =>
                  IF IsYiBetweenSame(fn_args.word) /\ i = 2
                    THEN fn_result[i] = 5
                    ELSE IF i > 1 /\ fn_args.word[i - 1] = "di"
                      THEN fn_result[i] = 1
                      ELSE i < Len(fn_args.word) =>
                              fn_result[i] = YiBeforeNext(fn_args.word, fn_args.finals, i)

\* C27 as amended: a word made only of "yi" and numeric characters keeps its
\* finals; otherwise the "yi" in the middle of a three-character word with
\* identical first and last characters becomes neutral (5); otherwise, in a
\* word that begins with "di yi", that "yi" becomes tone 1 when the word has
\* three or more characters and every "yi" of the word is otherwise kept; in
\* every other word a "yi" that has a next character becomes tone 2 before a
\* tone-4 syllable and else tone 4 unless the next character is punctuation,
\* and a word-final "yi" is kept.  Every other syllable is unchanged.
C27_YiToneByRule ==
    fn_pc = "returned" =>
        /\ OthersUnchanged
        /\ \A i \in 1..Len(fn_args.word) :
              fn_args.word[i] = "yi" =>
                  fn_result[i] =
                      IF IsNumberWord(fn_args.word)
                        THEN fn_args.finals[i]
                        ELSE IF IsYiBetweenSame(fn_args.word)
                          THEN 5
                          ELSE IF StartsWithDiYi(fn_args.word)
                            THEN IF i = 2 /\ Len(fn_args.word) > 2 THEN 1 ELSE fn_args.finals[i]
                            ELSE IF i < Len(fn_args.word)
                              THEN YiBeforeNext(fn_args.word, fn_args.finals, i)
                              ELSE fn_args.finals[i]

\* the word "yi yi" came back with the finals it was given
C27_Witness ==
    /\ fn_pc = "returned"
    /\ fn_args.word = <<"yi", "yi">>
    /\ fn_args.finals = <<1, 1>>
    /\ fn_result = <<1, 1>>

(***************************************************************************)
(* ToneSandhi::pre_merge_for_modify and the merges it folds over the       *)
(* segmented sentence.                                                     *)
(***************************************************************************)

\* merge_bu: the loop from token i on, then the trailing "bu"
RECURSIVE MergeBuLoop(_, _, _, _)
MergeBuLoop(seg_cut, i, result, last_word) ==
    IF i > Len(seg_cut)
      THEN IF last_word = <<"bu">>
             THEN Append(result, [word |-> last_word, tag |-> "d"])
             ELSE result
      ELSE LET merged_word == IF last_word = <<"bu">>
                                THEN last_word \o seg_cut[i].word
                                ELSE seg_cut[i].word
           IN  MergeBuLoop(seg_cut, i + 1,
                           IF merged_word # <<"bu">>
                             THEN Append(result, [word |-> merged_word, tag |-> seg_cut[i].tag])
                             ELSE result,
                           merged_word)

merge_bu(seg_cut) == MergeBuLoop(seg_cut, 1, <<>>, <<>>)

\* Case 1 of merge_yi: "yi" between two identical verbs
YiBetweenVerbs(seg_cut, i) ==
    /\ seg_cut[i].word = <<"yi">>
    /\ i > 1
    /\ i < Len(seg_cut)
    /\ seg_cut[i - 1].word = seg_cut[i + 1].word
    /\ seg_cut[i - 1].tag = "v"
    /\ seg_cut[i + 1].tag = "v"

\* Case 2 of merge_yi: the token after a "yi" repeats the token before it
RepeatsAfterYi(seg_cut, i) ==
    /\ i >= 3
    /\ seg_cut[i - 1].word = <<"yi">>
    /\ seg_cut[i - 2].word = seg_cut[i].word
    /\ seg_cut[i].tag = "v"

\* the first loop of merge_yi, from token i on
RECURSIVE MergeYiLoop(_, _, _)
MergeYiLoop(seg_cut, i, result) ==
    IF i > Len(seg_cut)
      THEN result
      ELSE IF YiBetweenVerbs(seg_cut, i)
             THEN MergeYiLoop(seg_cut, i + 1,
                              PushStrOnLast(result, <<"yi">> \o seg_cut[i + 1].word))
             ELSE IF RepeatsAfterYi(seg_cut, i)
                    THEN MergeYiLoop(seg_cut, i + 1, result)
                    ELSE MergeYiLoop(seg_cut, i + 1, Append(result, seg_cut[i]))

\* the fold of merge_yi that joins a remaining "yi" with the next word
RECURSIVE MergeYiFold(_, _, _)
MergeYiFold(result, i, acc) ==
    IF i > Len(result)
      THEN acc
      ELSE IF acc # <<>> /\ acc[Len(acc)].word = <<"yi">>
             THEN MergeYiFold(result, i + 1, PushStrOnLast(acc, result[i].word))
             ELSE MergeYiFold(result, i + 1, Append(acc, result[i]))

merge_yi(seg_cut) == MergeYiFold(MergeYiLoop(seg_cut, 1, <<>>), 1, <<>>)

RECURSIVE MergeReduplicationLoop(_, _, _)
MergeReduplicationLoop(seg_cut, i, new_seg) ==
    IF i > Len(seg_cut)
      THEN new_seg
      ELSE IF new_seg # <<>> /\ new_seg[Len(new_seg)].word = seg_cut[i].word
             THEN MergeReduplicationLoop(seg_cut, i + 1, PushStrOnLast(new_seg, seg_cut[i].word))
             ELSE MergeReduplicationLoop(seg_cut, i + 1, Append(new_seg, seg_cut[i]))

merge_reduplication(seg_cut) == MergeReduplicationLoop(seg_cut, 1, <<>>)

RECURSIVE MergeErLoop(_, _, _)
MergeErLoop(seg_cut, i, new_seg) ==
    IF i > Len(seg_cut)
      THEN new_seg
      ELSE IF i > 1 /\ seg_cut[i].word = <<"er">> /\ seg_cut[i - 1].word # <<"#">>
             THEN MergeErLoop(seg_cut, i + 1, PushStrOnLast(new_seg, seg_cut[i].word))
             ELSE MergeErLoop(seg_cut, i + 1, Append(new_seg, seg_cut[i]))

merge_er(seg_cut) == MergeErLoop(seg_cut, 1, <<>>)

\* the fold of the five merges over merge_bu(seg_cut)
pre_merge_for_modify(seg_cut) ==
    merge_er(
      merge_continuous_three_tones_2(
        merge_continuous_three_tones(
          merge_reduplication(
            merge_yi(
              merge_bu(seg_cut))))))

\* the tokens of the sentences pre_merge_for_modify is given
MergeWords == {<<"bu">>, <<"yi">>, <<"kan">>, <<"er">>, <<"hao">>}
MergeTokens == [word : MergeWords, tag : {"v", "n"}]
MergeSegCuts == UNION {[1..n -> MergeTokens] : n \in 0..MaxTokens}

InitPreMerge ==
    /\ fn_pc = "called"
    /\ fn_args \in [seg_cut : MergeSegCuts]
    /\ fn_result = <<>>
    /\ IdleDecode
    /\ IdleServer
    /\ IdleInfer
    /\ IdleClean
    /\ IdleBert

PreMergeForModify ==
    /\ fn_pc = "called"
    /\ fn_pc' = "returned"
    /\ fn_result' = pre_merge_for_modify(fn_args.seg_cut)
    /\ UNCHANGED fn_args
    /\ UNCHANGED nonFnVars

NextPreMerge == PreMergeForModify

SpecPreMerge == InitPreMerge /\ [][NextPreMerge]_vars

\* the words of a sentence, concatenated
TextOf(seg_cut) == Flatten([i \in 1..Len(seg_cut) |-> seg_cut[i].word])

\* C29: pre_merge_for_modify preserves the text: the concatenation of the
\* words of the merged output equals that of the input.
C29_PreMergePreservesText ==
    fn_pc = "returned" => TextOf(fn_result) = TextOf(fn_args.seg_cut)

(***************************************************************************)
(* Chronology::replace_date and replace_date2                              *)
(* (sovits-rs/src/text/zh_normalization/chronology.rs), on one match of    *)
(* their regular expressions.  A capture group is a record: whether it     *)
(* took part in the match, and its text.                                   *)
(***************************************************************************)

NoGroup == [matched |-> FALSE, str |-> <<>>]

Group(str) == [matched |-> TRUE, str |-> str]

\* a group that takes part in the match only when its text is not empty
OptGroup(str) == IF str = <<>> THEN NoGroup ELSE Group(str)

\* Captures::get: None for a group that did not take part and for an index the
\* expression has no group for
CapsGet(caps, n) == IF n \in 1..Len(caps) THEN caps[n] ELSE NoGroup

\* the groups of RE_DATE on a date written year-nian, month-yue, day-suffix:
\* 1 the year, 2 the month with its "yue", 3 the month, 4 the day with its
\* suffix, 5 the day, 6 the suffix
CapsOfDate(d) ==
    << Group(d.year),
       IF d.month = <<>> THEN NoGroup ELSE Group(d.month \o <<"yue">>),
       OptGroup(d.month),
       IF d.day = <<>> THEN NoGroup ELSE Group(d.day \o d.suffix),
       OptGroup(d.day),
       IF d.day = <<>> THEN NoGroup ELSE Group(d.suffix) >>

\* the groups of RE_DATE2 on a date written with separators: 1 the year, 2 the
\* month, 3 the day, 4 the suffix
CapsOfDate2(d) == <<Group(d.year), Group(d.month), Group(d.day), OptGroup(d.suffix)>>

\* `caps.get(n).map_or("ri", |m| m.as_str())`
SuffixOr(group) == IF group.matched THEN group.str ELSE <<"ri">>

\* the closure of replace_date on the captures of one match
replace_date(caps) ==
    LET year  == IF CapsGet(caps, 1).matched
                   THEN verbalize_digits(CapsGet(caps, 1).str, FALSE) \o <<"nian">>
                   ELSE <<>>
        month == IF CapsGet(caps, 3).matched
                   THEN verbalize_cardinal(CapsGet(caps, 3).str, FALSE) \o <<"yue">>
                   ELSE <<>>
        day   == IF CapsGet(caps, 5).matched
                   THEN verbalize_cardinal(CapsGet(caps, 5).str, FALSE)
                            \o SuffixOr(CapsGet(caps, 9))
                   ELSE <<>>
    IN  year \o month \o day

\* the closure of replace_date2 on the captures of one match
replace_date2(caps) ==
    LET year  == IF CapsGet(caps, 1).matched
                   THEN verbalize_digits(CapsGet(caps, 1).str, FALSE) \o <<"nian">>
                   ELSE <<>>
        month == IF CapsGet(caps, 2).matched
                   THEN verbalize_cardinal(CapsGet(caps, 2).str, FALSE) \o <<"yue">>
                   ELSE <<>>
        day   == IF CapsGet(caps, 3).matched
                   THEN verbalize_cardinal(CapsGet(caps, 3).str, FALSE)
                            \o SuffixOr(CapsGet(caps, 4))
                   ELSE <<>>
    IN  year \o month \o day

\* the parts of the dates the expressions match
DateYears == {<<"2", "3">>, <<"2", "0", "2", "3">>}
DateMonths == {<<"1">>, <<"0", "6">>, <<"1", "0">>}
DateDays == {<<"5">>, <<"0", "8">>, <<"2", "5">>, <<"3", "1">>}
DaySuffixes == {<<"ri">>, <<"hao">>}

\* RE_DATE: the month and the day are optional, a day comes with its suffix
DatesInHan ==
    {d \in [form : {"nian"}, year : DateYears, month : DateMonths \cup {<<>>},
            day : DateDays \cup {<<>>}, suffix : DaySuffixes \cup {<<>>}] :
        (d.day = <<>>) = (d.suffix = <<>>)}

\* RE_DATE2: year, month and day, the suffix is optional
DatesWithSeparators ==
    [form : {"separators"}, year : DateYears, month : DateMonths, day : DateDays,
     suffix : DaySuffixes \cup {<<>>}]

InitDate ==
    /\ fn_pc = "called"
    /\ fn_args \in DatesInHan \cup DatesWithSeparators
    /\ fn_result = <<>>
    /\ IdleDecode
    /\ IdleServer
    /\ IdleInfer
    /\ IdleClean
    /\ IdleBert

ReplaceDate ==
    /\ fn_pc = "called"
    /\ fn_args.form = "nian"
    /\ fn_pc' = "returned"
    /\ fn_result' = replace_date(CapsOfDate(fn_args))
    /\ UNCHANGED fn_args
    /\ UNCHANGED nonFnVars

ReplaceDate2 ==
    /\ fn_pc = "called"
    /\ fn_args.form = "separators"
    /\ fn_pc' = "returned"
    /\ fn_result' = replace_date2(CapsOfDate2(fn_args))
    /\ UNCHANGED fn_args
    /\ UNCHANGED nonFnVars

NextDate == ReplaceDate \/ ReplaceDate2

SpecDate == InitDate /\ [][NextDate]_vars

\* C28: for every matched date with a day, in both forms, a day suffix present
\* in the input ("ri" or "hao") is the suffix of the output, and the output
\* has "ri" when the input has no suffix.
C28_DaySuffixKept ==
    (fn_pc = "returned" /\ fn_args.day # <<>>) =>
        <<fn_result[Len(fn_result)]>> =
            IF fn_args.suffix = <<>> THEN <<"ri">> ELSE fn_args.suffix

(***************************************************************************)
(* The /api/tts handler under fair scheduling.  Every request is served by *)
(* a worker thread that keeps running: a step of a request that stays      *)
(* possible is taken.  Nothing is assumed about which waiter gets the      *)
(* Mutex.                                                                  *)
(***************************************************************************)

FairSpecServer ==
    /\ SpecServer
    /\ \A r \in Reqs :
          /\ WF_vars(LockForSynthesis(r))
          /\ WF_vars(Synthesis(r))
          /\ WF_vars(EncodeWav(r))
          /\ WF_vars(LockForRecord(r))
          /\ WF_vars(RecordQuery(r))

\* a request that is about to call lock() does not hold the guard
LocksOnlyWhenNotHolding ==
    \A r \in Reqs : req_pc[r] \in {"new", "record_wait"} => mutex_holder # r

\* every synthesis call so far has returned
EverySynthesisReturned == \A r \in Reqs : req_pc[r] # "synth_panicked"

AllResponded == \A r \in Reqs : req_pc[r] = "responded"

\* C30: the handler never calls lock() while it holds the guard, and, if every
\* synthesis call returns, under fair scheduling every one of the concurrent
\* requests eventually gets its response.
C30_EveryRequestResponds ==
    /\ []LocksOnlyWhenNotHolding
    /\ ([]EverySynthesisReturned) => <>AllResponded

\* all the concurrent requests were answered, each having recorded its query
C30_Witness ==
    /\ AllResponded
    /\ Len(track) = NumRequests
    /\ NumRequests >= 2

====
